---- MODULE Spec2Model ----
(***************************************************************************)
(* Titan-Flow fetch-and-admission core: the circuit breaker, the rate      *)
(* limit manager, the proxy escalation ladder, the memory monitor and the  *)
(* URL canonicalizer, each as a state machine over the shared Redis store  *)
(* and the in-process state the Rust code keeps.                           *)
(*                                                                         *)
(* One specification per component:                                        *)
(*   SpecCB     engine/circuit_breaker.rs                                  *)
(*   SpecRL     engine/rate_limiter.rs                                     *)
(*   SpecProxy  network/proxy.rs                                           *)
(*   SpecMem    engine/dispatcher.rs                                       *)
(*   SpecNorm   engine/normalization.rs                                    *)
(*   SpecClient network/client.rs, FastClient::fetch                       *)
(*   SpecConc   engine/circuit_breaker.rs, calls of concurrent tasks       *)
(*   SpecRobots engine/rate_limiter.rs, RobotstxtParser                    *)
(*   SpecBucket engine/rate_limiter.rs, DomainRateLimiter                  *)
(*   SpecCursor network/proxy.rs, get_next_proxy of concurrent tasks       *)
(*   SpecRender engine/slow_path.rs                                        *)
(*   SpecEngine the four components of one process over one Redis          *)
(*   SpecQueue  engine/circuit_breaker.rs, handoff_to_queue and consumers  *)
(*   SpecDensity engine/density.rs                                         *)
(*   SpecFingerprint engine/fingerprint.rs                                 *)
(*   SpecJar    network/proxy.rs and network/client.rs, cookie stores      *)
(*   SpecAcquire engine/rate_limiter.rs, acquire of concurrent tasks        *)
(*   SpecFault  engine/circuit_breaker.rs over a failing connection         *)
(*   SpecWorker persistence/ai_worker.rs                                    *)
(* Every specification constrains all variables; the ones a component does *)
(* not touch keep their initial value.                                     *)
(***************************************************************************)
EXTENDS Integers, Sequences, FiniteSets, TLC

VARIABLES
    \* ---- Redis server state (shared by circuit breaker and rate limiter)
    redis,              \* key -> stored value (RNil when the key is absent)
    redis_ttl,          \* key -> remaining seconds to live, NoExpiry if none
    \* ---- CircuitBreaker
    cb_redis,           \* CircuitBreaker.redis is Some (TRUE) or None (FALSE)
    cb_last,            \* the last completed CircuitBreaker call and its result
    hf_streak,          \* domain -> consecutive handle_failure calls since
                        \* the domain had no stored state (-1: not such a
                        \* run; counted up to MaxCount + 1)
    \* ---- RateLimitManager
    rl_redis,           \* RateLimitManager.redis is Some / None
    domain_limiters,    \* domain -> registered standard_delay_ms, or
                        \* NotRegistered
    rl_last,            \* the last completed RateLimitManager call
    since_t2,           \* domain -> seconds since record_tier2_failure
                        \* last returned Ok (NeverT2 if it never did)
    \* ---- ProxyManager
    tier1_proxies,      \* the datacenter pool (a sequence of proxy URLs)
    tier2_proxies,      \* the residential pool
    t1_idx, t2_idx,     \* round-robin cursors
    px_last,            \* the last completed fetch_with_escalation call
    \* ---- MemoryMonitor
    is_under_pressure,  \* the shared flag
    ram_used, ram_total,\* the last sample read by the monitor loop
    \* ---- normalize_url
    href, base_url,     \* the inputs, as character sequences
    norm_out,           \* normalize_url(href, base_url)
    norm_again,         \* normalize_url(norm_out, base_url)
    norm_pc,            \* "input" | "once" | "twice"
    \* ---- FastClient
    fc_last,            \* the answer the server gives to the request and
                        \* what fetch returned for it (FcNone before)
    \* ---- concurrent CircuitBreaker calls on one domain
    cc_pc,              \* task -> the command its call issues next
    cc_local,           \* task -> `count` of its record_failure call
    cc_incs,            \* INCR commands the server has applied
    cc_returned,        \* the counts record_failure calls returned, in
                        \* the order the calls returned
    cc_checked,         \* failure_count of the last two completed check
                        \* calls (NoCheckYet where there was none)
    \* ---- RobotstxtParser
    rb_in,              \* robots_txt handed to register_domain: Some(text)
                        \* or None
    rb_out,             \* the CrawlDelayConfig built from it (RbNone before)
    \* ---- DomainRateLimiter of one domain
    bk_delay,           \* the standard_delay_ms it was registered with
    bk_now,             \* the clock (ms since the limiter was built)
    bk_tat,             \* the limiter's state: when the next cell is due
    bk_acq,             \* the last two acquire calls that returned Ok: when
                        \* they returned and whether they had to wait
    \* ---- concurrent get_next_proxy calls
    gp_pc,              \* task -> where its call stands
    gp_call,            \* task -> its call: tier, rank k among the calls
                        \* that took the tier's lock, and the proxy read
    gp_lock,            \* tier -> the task holding the cursor's write lock
    gp_calls,           \* tier -> calls that took the lock so far
    gp_returned,        \* the calls that returned, with what they returned
    \* ---- SlowPathRenderer
    sp_pc,              \* "idle" between render calls, else the await the
                        \* running call is at
    sp_browser,         \* SlowPathRenderer.browser is Some
    sp_pages,           \* the pages open in the browser
    sp_page,            \* the `page` of the running call (NoPage if none)
    sp_ret,             \* what the last render call returned
    sp_calls,           \* render calls started
    \* ---- concurrent handoff_to_queue calls and the queue's consumers
    hq_pc,              \* task -> "idle", or the URL of its call whose
                        \* RPUSH is done and whose return is pending
    hq_before,          \* URL handed off -> the URLs whose calls had
                        \* returned when its call started
    hq_applied,         \* the URLs in the order the server applied RPUSH
    hq_completed,       \* the URLs in the order their calls returned
    hq_delivered,       \* the BLPOP replies, in the order they were served
    \* ---- DensityMetrics
    dn_doc,             \* the parsed document handed to compute
    dn_out,             \* the DensityMetrics computed for it (DnNone before)
    \* ---- head fingerprints
    fp_new,             \* the page as fetched now
    fp_cached,          \* the page as it was when its fingerprint was cached
    fp_stored,          \* the cached fingerprint
    fp_out,             \* the fingerprint of the page as fetched now and
                        \* has_content_changed of it and the cached one
                        \* (FpNone before)
    \* ---- the clients of fetch_with_escalation calls and their cookies
    jar_pc,             \* "idle" between calls, "send" while an attempt's
                        \* client has a request to send
    jar_call,           \* fetch_with_escalation calls started
    jar_tier,           \* the tier of the running attempt
    jar_client,         \* the attempt's FastClient: its proxy and the
                        \* cookies in its store, each named by the call,
                        \* tier and hop whose response set it
    jar_hops,           \* redirects the attempt's client has followed
    jar_sent,           \* the request sent last, with its cookies
    jar_stored,         \* the attempts (call, tier) in which a cookie was stored
    \* ---- concurrent acquire calls on one domain
    aq_pc,              \* task -> "idle", or the step its call takes next
    aq_call,            \* task -> its running or last call: is_slow_path,
                        \* the limiter it got, the steps it took, the result
    aq_map,             \* the domain's entry in domain_limiters (NoLimiter
                        \* if there is none)
    aq_made,            \* DomainRateLimiter values built so far
    \* ---- calls over a Redis connection that can fail
    ft_pc,              \* "idle", or the command the running call issues next
    ft_call,            \* the running or last call: what was stored for its
                        \* domain when it started, the count INCR returned,
                        \* which of its reads were answered, and its result
    ft_over,            \* url -> handle_failure calls for it whose INCR
                        \* returned a count above the threshold
    \* ---- AIEnrichmentWorker
    wk_running,         \* the `running` flag
    wk_records,         \* the records of the store
    wk_stats,           \* polls made, processed_count and error_count
    wk_attempts         \* record id -> enrich_record calls made for it

redisVars == <<redis, redis_ttl>>
cbVars    == <<cb_redis, cb_last, hf_streak>>
rlVars    == <<rl_redis, domain_limiters, rl_last, since_t2>>
pxVars    == <<tier1_proxies, tier2_proxies, t1_idx, t2_idx, px_last>>
memVars   == <<is_under_pressure, ram_used, ram_total>>
normVars  == <<href, base_url, norm_out, norm_again, norm_pc>>
coreVars  == <<redisVars, cbVars, rlVars, pxVars, memVars, normVars>>
clientVars == <<fc_last>>
concVars  == <<cc_pc, cc_local, cc_incs, cc_returned, cc_checked>>
robotsVars == <<rb_in, rb_out>>
bucketVars == <<bk_delay, bk_now, bk_tat, bk_acq>>
cursorVars == <<gp_pc, gp_call, gp_lock, gp_calls, gp_returned>>
renderVars == <<sp_pc, sp_browser, sp_pages, sp_page, sp_ret, sp_calls>>
queueVars == <<hq_pc, hq_before, hq_applied, hq_completed, hq_delivered>>
densityVars == <<dn_doc, dn_out>>
fingerprintVars == <<fp_new, fp_cached, fp_stored, fp_out>>
jarVars == <<jar_pc, jar_call, jar_tier, jar_client, jar_hops, jar_sent, jar_stored>>
acquireVars == <<aq_pc, aq_call, aq_map, aq_made>>
faultVars == <<ft_pc, ft_call, ft_over>>
workerVars == <<wk_running, wk_records, wk_stats, wk_attempts>>
moreVars  == <<clientVars, concVars, robotsVars, bucketVars, cursorVars,
               renderVars, queueVars, densityVars, fingerprintVars, jarVars,
               acquireVars, faultVars, workerVars>>
vars      == <<coreVars, moreVars>>

----------------------------------------------------------------------------
(* Bounds of the model *)

\* INCR is not applied beyond this count
MaxCount == 4
\* queue:slow_render_tasks holds at most this many entries
MaxQueue == 2
\* seconds that pass in one tick of the circuit breaker's clock
TimeStep == 1800
\* seconds that pass in one tick of the rate limiter's clock
RLTimeStep == 21600
\* the machine's total memory, in units; samples range over 0..MaxMem
MaxMem == 200

Domains == {"d.com", "e.org"}
Urls    == {"https://d.com/x", "https://e.org/y"}

Max(a, b) == IF a >= b THEN a ELSE b
Min(a, b) == IF a <= b THEN a ELSE b

----------------------------------------------------------------------------
(* Redis: keys, values and the conversions redis-rs applies *)

FAILURE_THRESHOLD    == 3
FAILURE_TTL_SECS     == 3600
BACKOFF_429_TTL_SECS == 3600
BLACKLIST_TTL_SECS   == 86400

FAILURES_PREFIX      == "failures"
DOMAIN_CONFIG_PREFIX == "domain_config"
SLOW_RENDER_QUEUE    == "queue:slow_render_tasks"
RATELIMIT_PREFIX     == "ratelimit"
BLACKLIST_PREFIX     == "blacklist"

\* xxh64(domain, seed 0), rendered as the key component; distinct digests
\* for the domains of the model
domain_hash(d) == IF d = "d.com" THEN "H_d" ELSE "H_e"

failure_key(d)   == <<FAILURES_PREFIX, domain_hash(d), "count">>
config_key(d)    == <<DOMAIN_CONFIG_PREFIX, domain_hash(d), "requires_full_browser">>
bucket_key(d)    == <<RATELIMIT_PREFIX, domain_hash(d), "bucket">>
blacklist_key(d) == <<BLACKLIST_PREFIX, domain_hash(d)>>
queue_key        == <<SLOW_RENDER_QUEUE>>

RedisKeys == {failure_key(d) : d \in Domains} \cup {config_key(d) : d \in Domains}
             \cup {bucket_key(d) : d \in Domains}
             \cup {blacklist_key(d) : d \in Domains} \cup {queue_key}

NoExpiry == -1
RNil     == [t |-> "nil"]
RStr(s)  == [t |-> "str", v |-> s]
RInt(n)  == [t |-> "int", v |-> n]
RList(q) == [t |-> "list", v |-> q]

\* ToRedisArgs for bool: true is sent as "1", false as "0"
ToRedisBool(b) == IF b THEN RStr("1") ELSE RStr("0")

\* Result<T, RedisError>
Ok(x) == [ok |-> TRUE, v |-> x]
Err   == [ok |-> FALSE]

\* FromRedisValue for bool
FromRedisBool(val) ==
    IF val.t = "nil" THEN Ok(FALSE)
    ELSE IF val.t = "int" THEN Ok(val.v # 0)
    ELSE IF val.t = "str"
         THEN IF val.v \in {"1", "true"} THEN Ok(TRUE)
              ELSE IF val.v \in {"0", "false"} THEN Ok(FALSE) ELSE Err
    ELSE Err

\* FromRedisValue for u32: a nil reply is not an integer
FromRedisU32(val) == IF val.t = "int" THEN Ok(val.v) ELSE Err

\* Result::unwrap_or
unwrap_or(r, dflt) == IF r.ok THEN r.v ELSE dflt

\* the commands the code issues, as the new (redis, redis_ttl) pair
RedisSet(st, key, val) ==
    [kv  |-> [st.kv EXCEPT ![key] = val],
     ttl |-> [st.ttl EXCEPT ![key] = NoExpiry]]
RedisSetEx(st, key, val, secs) ==
    [kv  |-> [st.kv EXCEPT ![key] = val],
     ttl |-> [st.ttl EXCEPT ![key] = secs]]
RedisIncr(st, key) ==
    [kv  |-> [st.kv EXCEPT ![key] =
                 IF st.kv[key].t = "int" THEN RInt(st.kv[key].v + 1) ELSE RInt(1)],
     ttl |-> st.ttl]
RedisExpire(st, key, secs) ==
    [kv  |-> st.kv,
     ttl |-> [st.ttl EXCEPT ![key] = IF st.kv[key].t = "nil" THEN NoExpiry ELSE secs]]
RedisDel(st, key) ==
    [kv  |-> [st.kv EXCEPT ![key] = RNil],
     ttl |-> [st.ttl EXCEPT ![key] = NoExpiry]]
RedisRpush(st, key, item) ==
    [kv  |-> [st.kv EXCEPT ![key] =
                 IF st.kv[key].t = "list" THEN RList(Append(st.kv[key].v, item))
                 ELSE RList(<<item>>)],
     ttl |-> st.ttl]
RedisExists(st, key) == st.kv[key].t # "nil"

RedisNow == [kv |-> redis, ttl |-> redis_ttl]

\* the passing of `secs` seconds on the server: keys whose time is up vanish
RedisElapse(st, secs) ==
    [kv  |-> [k \in RedisKeys |->
                 IF st.ttl[k] # NoExpiry /\ st.ttl[k] <= secs THEN RNil ELSE st.kv[k]],
     ttl |-> [k \in RedisKeys |->
                 IF st.ttl[k] = NoExpiry \/ st.ttl[k] <= secs THEN NoExpiry
                 ELSE st.ttl[k] - secs]]

RedisInit == [kv |-> [k \in RedisKeys |-> RNil], ttl |-> [k \in RedisKeys |-> NoExpiry]]

----------------------------------------------------------------------------
(* CircuitBreaker (engine/circuit_breaker.rs) *)

Closed == "Closed"
Open   == "Open"

NoUrl == "-"

CircuitCheckResult(s, n, b) ==
    [state |-> s, failure_count |-> n, requires_full_browser |-> b]

\* check with the threshold compared by >= instead of >
check_ge(st, d) ==
    IF cb_redis
    THEN LET rfb == unwrap_or(FromRedisBool(st.kv[config_key(d)]), FALSE) IN
         IF rfb
         THEN CircuitCheckResult(Open, FAILURE_THRESHOLD + 1, TRUE)
         ELSE LET fc == unwrap_or(FromRedisU32(st.kv[failure_key(d)]), 0) IN
              CircuitCheckResult(IF fc >= FAILURE_THRESHOLD THEN Open ELSE Closed,
                                 fc, FALSE)
    ELSE CircuitCheckResult(Closed, 0, FALSE)

\* check(&self, domain): reads only
check(st, d) ==
    IF cb_redis
    THEN LET rfb == unwrap_or(FromRedisBool(st.kv[config_key(d)]), FALSE) IN
         IF rfb
         THEN CircuitCheckResult(Open, FAILURE_THRESHOLD + 1, TRUE)
         ELSE LET fc == unwrap_or(FromRedisU32(st.kv[failure_key(d)]), 0) IN
              CircuitCheckResult(IF fc > FAILURE_THRESHOLD THEN Open ELSE Closed,
                                 fc, FALSE)
    ELSE CircuitCheckResult(Closed, 0, FALSE)

\* trip_circuit writing the flag with the counter's TTL (SETEX for SET)
trip_circuit_ttl(st, d) ==
    IF cb_redis
    THEN RedisSetEx(st, config_key(d), ToRedisBool(TRUE), FAILURE_TTL_SECS)
    ELSE st

\* trip_circuit(&self, domain): the new store
trip_circuit(st, d) ==
    IF cb_redis THEN RedisSet(st, config_key(d), ToRedisBool(TRUE)) ELSE st

\* record_failure counting without asking whether there is a connection
record_failure_unguarded(st, d) ==
    LET key   == failure_key(d)
        st1   == RedisIncr(st, key)
        count == st1.kv[key].v
        st2   == IF count = 1 THEN RedisExpire(st1, key, FAILURE_TTL_SECS) ELSE st1
        st3   == IF count > FAILURE_THRESHOLD THEN trip_circuit(st2, d) ELSE st2
    IN  [st |-> st3, ret |-> count]

\* record_failure(&self, domain): the new store and the returned count
record_failure(st, d) ==
    IF cb_redis
    THEN LET key   == failure_key(d)
             st1   == RedisIncr(st, key)
             count == st1.kv[key].v
             st2   == IF count = 1 THEN RedisExpire(st1, key, FAILURE_TTL_SECS) ELSE st1
             st3   == IF count > FAILURE_THRESHOLD THEN trip_circuit(st2, d) ELSE st2
         IN  [st |-> st3, ret |-> count]
    ELSE [st |-> st, ret |-> 0]

\* handoff_to_queue pushing at the head of the list (LPUSH for RPUSH)
handoff_to_queue_lpush(st, u) ==
    IF cb_redis
    THEN [kv  |-> [st.kv EXCEPT ![queue_key] = 
                 IF st.kv[queue_key].t = "list"
                 THEN RList(<<u>> \o st.kv[queue_key].v)
                 ELSE RList(<<u>>)],
          ttl |-> st.ttl]
    ELSE st

\* handoff_to_queue(&self, normalized_url): the new store
handoff_to_queue(st, u) ==
    IF cb_redis THEN RedisRpush(st, queue_key, u) ELSE st

\* handle_failure handing off at the threshold already (>= for >)
handle_failure_ge(st, d, u) ==
    LET r == record_failure(st, d) IN
    IF r.ret >= FAILURE_THRESHOLD
    THEN [st |-> handoff_to_queue(r.st, u), ret |-> TRUE]
    ELSE [st |-> r.st, ret |-> FALSE]

\* handle_failure(&self, domain, normalized_url): the new store and Ok(bool)
handle_failure(st, d, u) ==
    LET r == record_failure(st, d) IN
    IF r.ret > FAILURE_THRESHOLD
    THEN [st |-> handoff_to_queue(r.st, u), ret |-> TRUE]
    ELSE [st |-> r.st, ret |-> FALSE]

\* should_bypass_local(&self, domain)
should_bypass_local(st, d) == check(st, d).requires_full_browser

\* reset deleting the counter only
reset_counter_only(st, d) ==
    IF cb_redis THEN RedisDel(st, failure_key(d)) ELSE st

\* reset(&self, domain): the new store
reset(st, d) ==
    IF cb_redis
    THEN RedisDel(RedisDel(st, failure_key(d)), config_key(d))
    ELSE st

\* what the store holds for a domain
StoredCount(d) == IF redis[failure_key(d)].t = "int" THEN redis[failure_key(d)].v ELSE 0
StoredFlag(d)  == redis[config_key(d)] = RStr("1")
NoStoredState(st, d) == st.kv[failure_key(d)] = RNil /\ st.kv[config_key(d)] = RNil
QueueOf(kv) == IF kv[queue_key].t = "list" THEN kv[queue_key].v ELSE <<>>

CBCall(op, d, u, r) == [op |-> op, domain |-> d, url |-> u, ret |-> r]

Check(d) ==
    /\ cb_last' = CBCall("check", d, NoUrl, check(RedisNow, d))
    /\ UNCHANGED <<redisVars, cb_redis, hf_streak>>

ShouldBypassLocal(d) ==
    /\ cb_last' = CBCall("should_bypass_local", d, NoUrl,
                         [bypass |-> should_bypass_local(RedisNow, d)])
    /\ UNCHANGED <<redisVars, cb_redis, hf_streak>>

RecordFailure(d) ==
    /\ StoredCount(d) < MaxCount
    /\ LET r == record_failure(RedisNow, d) IN
        /\ redis' = r.st.kv
        /\ redis_ttl' = r.st.ttl
        /\ cb_last' = CBCall("record_failure", d, NoUrl, [count |-> r.ret])
    /\ hf_streak' = [hf_streak EXCEPT ![d] = -1]
    /\ UNCHANGED cb_redis

HandoffToQueue(u) ==
    /\ Len(QueueOf(redis)) < MaxQueue
    /\ LET st == handoff_to_queue(RedisNow, u) IN
        /\ redis' = st.kv
        /\ redis_ttl' = st.ttl
    /\ cb_last' = CBCall("handoff_to_queue", "-", u, [done |-> TRUE])
    /\ UNCHANGED <<cb_redis, hf_streak>>

HandleFailure(d, u) ==
    /\ StoredCount(d) < MaxCount
    /\ Len(QueueOf(redis)) < MaxQueue
    /\ LET r == handle_failure(RedisNow, d, u) IN
        /\ redis' = r.st.kv
        /\ redis_ttl' = r.st.ttl
        /\ cb_last' = CBCall("handle_failure", d, u, [handoff |-> r.ret])
    /\ hf_streak' = [hf_streak EXCEPT ![d] = IF @ >= 0 THEN Min(@ + 1, MaxCount + 1) ELSE -1]
    /\ UNCHANGED cb_redis

Reset(d) ==
    /\ LET st == reset(RedisNow, d) IN
        /\ redis' = st.kv
        /\ redis_ttl' = st.ttl
        /\ hf_streak' = [hf_streak EXCEPT ![d] = IF NoStoredState(st, d) THEN 0 ELSE @]
    /\ cb_last' = CBCall("reset", d, NoUrl, [done |-> TRUE])
    /\ UNCHANGED cb_redis

\* TimeStep seconds pass; a run of handle_failure calls that loses its
\* counter to expiry is over (it restarts if nothing is left stored)
TickCB ==
    /\ \E k \in RedisKeys : redis_ttl[k] # NoExpiry
    /\ LET st == RedisElapse(RedisNow, TimeStep) IN
        /\ redis' = st.kv
        /\ redis_ttl' = st.ttl
        /\ hf_streak' = [d \in Domains |->
                            IF st.kv[failure_key(d)] = redis[failure_key(d)] THEN hf_streak[d]
                            ELSE IF NoStoredState(st, d) THEN 0 ELSE -1]
    /\ cb_last' = CBCall("tick", "-", NoUrl, [done |-> TRUE])
    /\ UNCHANGED cb_redis

----------------------------------------------------------------------------
(* RateLimitManager (engine/rate_limiter.rs) *)

DEFAULT_CRAWL_DELAY_MS == 1000
SLOW_PATH_MULTIPLIER   == 2

\* the crawl delays (ms) a robots.txt of the model declares
CrawlDelays == {0, 500, 2000}
\* robots_txt is None
NoRobots == -1

NotRegistered == -1
NeverT2 == -1

CrawlDelayConfig(ms) ==
    [standard_delay_ms |-> ms, slow_path_delay_ms |-> ms * SLOW_PATH_MULTIPLIER]

\* is_blacklisted reading the back-off key of the domain
is_blacklisted_bucket_key(st, d) ==
    IF rl_redis THEN RedisExists(st, bucket_key(d)) ELSE FALSE

\* is_blacklisted(&self, domain)
is_blacklisted(st, d) ==
    IF rl_redis THEN RedisExists(st, blacklist_key(d)) ELSE FALSE

\* record_429(&self, domain): the new store
record_429(st, d) ==
    IF rl_redis
    THEN RedisSetEx(st, bucket_key(d), RStr("backoff"), BACKOFF_429_TTL_SECS)
    ELSE st

\* record_tier2_failure writing the key with the back-off TTL
record_tier2_failure_short(st, d) ==
    IF rl_redis
    THEN RedisSetEx(st, blacklist_key(d), RStr("blacklisted"), BACKOFF_429_TTL_SECS)
    ELSE st

\* record_tier2_failure(&self, domain): the new store
record_tier2_failure(st, d) ==
    IF rl_redis
    THEN RedisSetEx(st, blacklist_key(d), RStr("blacklisted"), BLACKLIST_TTL_SECS)
    ELSE st

\* register_domain(&self, domain, robots_txt): the new registry;
\* robots is the Crawl-delay (ms) parsed from robots_txt, or NoRobots
register_domain(reg, d, robots) ==
    [reg EXCEPT ![d] = IF robots = NoRobots THEN DEFAULT_CRAWL_DELAY_MS ELSE robots]

\* get_limiter(&self, domain): the registry after the lookup
get_limiter(reg, d) ==
    IF reg[d] # NotRegistered THEN reg ELSE register_domain(reg, d, NoRobots)

\* acquire(&self, domain, is_slow_path): the result, the registry and the
\* extra slow-path sleep (ms)
acquire(st, reg, d, is_slow_path) ==
    IF is_blacklisted(st, d)
    THEN [ret |-> "DomainBlacklisted", reg |-> reg, extra_delay |-> 0]
    ELSE LET reg1 == get_limiter(reg, d)
             cfg  == CrawlDelayConfig(reg1[d])
             extra_delay == cfg.slow_path_delay_ms - cfg.standard_delay_ms
         IN  [ret |-> "Ok", reg |-> reg1,
              extra_delay |-> IF is_slow_path /\ extra_delay > 0 THEN extra_delay ELSE 0]

RLCall(op, d, slow, r, extra) ==
    [op |-> op, domain |-> d, is_slow_path |-> slow, ret |-> r, extra_delay |-> extra]

RegisterDomain(d, robots) ==
    /\ domain_limiters' = register_domain(domain_limiters, d, robots)
    /\ rl_last' = RLCall("register_domain", d, FALSE, "Ok", 0)
    /\ UNCHANGED <<redisVars, rl_redis, since_t2>>

IsBlacklisted(d) ==
    /\ rl_last' = RLCall("is_blacklisted", d, FALSE,
                         IF is_blacklisted(RedisNow, d) THEN "true" ELSE "false", 0)
    /\ UNCHANGED <<redisVars, rl_redis, domain_limiters, since_t2>>

Record429(d) ==
    /\ LET st == record_429(RedisNow, d) IN
        /\ redis' = st.kv
        /\ redis_ttl' = st.ttl
    /\ rl_last' = RLCall("record_429", d, FALSE, "Ok", 0)
    /\ UNCHANGED <<rl_redis, domain_limiters, since_t2>>

RecordTier2Failure(d) ==
    /\ LET st == record_tier2_failure(RedisNow, d) IN
        /\ redis' = st.kv
        /\ redis_ttl' = st.ttl
    /\ rl_last' = RLCall("record_tier2_failure", d, FALSE, "Ok", 0)
    /\ since_t2' = [since_t2 EXCEPT ![d] = 0]
    /\ UNCHANGED <<rl_redis, domain_limiters>>

Acquire(d, is_slow_path) ==
    /\ LET r == acquire(RedisNow, domain_limiters, d, is_slow_path) IN
        /\ domain_limiters' = r.reg
        /\ rl_last' = RLCall("acquire", d, is_slow_path, r.ret, r.extra_delay)
    /\ UNCHANGED <<redisVars, rl_redis, since_t2>>

\* RLTimeStep seconds pass
TickRL ==
    /\ \E d \in Domains : since_t2[d] \notin {NeverT2, BLACKLIST_TTL_SECS}
                           \/ redis_ttl[bucket_key(d)] # NoExpiry
    /\ LET st == RedisElapse(RedisNow, RLTimeStep) IN
        /\ redis' = st.kv
        /\ redis_ttl' = st.ttl
    /\ since_t2' = [d \in Domains |->
                       IF since_t2[d] = NeverT2 THEN NeverT2
                       ELSE Min(since_t2[d] + RLTimeStep, BLACKLIST_TTL_SECS)]
    /\ rl_last' = RLCall("tick", "-", FALSE, "Ok", 0)
    /\ UNCHANGED <<rl_redis, domain_limiters>>

----------------------------------------------------------------------------
(* ProxyManager (network/proxy.rs) *)

Tier0Direct      == 0
Tier1Datacenter  == 1
Tier2Residential == 2

NoProxy == "direct"

\* NetworkError variants and Ok, as FastClient::fetch can return them
FetchOk       == [kind |-> "Ok",            arg |-> "body"]
SoftBan       == [kind |-> "SoftBan",       arg |-> "Title Trigger"]
HardBan403    == [kind |-> "HardBan",       arg |-> "403"]
HardBan429    == [kind |-> "HardBan",       arg |-> "429"]
EmptyResponse == [kind |-> "EmptyResponse", arg |-> "120"]
Reqwest       == [kind |-> "Reqwest",       arg |-> "transport"]
Outcomes == {FetchOk, SoftBan, HardBan403, HardBan429, EmptyResponse, Reqwest}

Pools1 == {<<>>, <<"dc1">>, <<"dc1", "dc2">>}
Pools2 == {<<>>, <<"res1">>, <<"res1", "res2">>}

UrlDomain(u) == IF u = "https://d.com/x" THEN "d.com" ELSE "e.org"

\* should_escalate escalating on every error
should_escalate_all(e) == e.kind # "Ok"

\* should_escalate(&self, err)
should_escalate(e) ==
    IF e.kind = "SoftBan" THEN TRUE
    ELSE IF e.kind = "HardBan" THEN TRUE
    ELSE IF e.kind = "EmptyResponse" THEN TRUE
    ELSE FALSE

\* get_next_proxy moving the cursor also when the pool is empty
get_next_proxy_counting(tier, c) ==
    IF tier = 1
    THEN IF tier1_proxies = <<>> THEN [proxy |-> NoProxy, c |-> [c EXCEPT !.t1 = c.t1 + 1]]
         ELSE [proxy |-> tier1_proxies[c.t1 + 1],
               c |-> [c EXCEPT !.t1 = (c.t1 + 1) % Len(tier1_proxies)]]
    ELSE IF tier = 2
    THEN IF tier2_proxies = <<>> THEN [proxy |-> NoProxy, c |-> [c EXCEPT !.t2 = c.t2 + 1]]
         ELSE [proxy |-> tier2_proxies[c.t2 + 1],
               c |-> [c EXCEPT !.t2 = (c.t2 + 1) % Len(tier2_proxies)]]
    ELSE [proxy |-> NoProxy, c |-> c]

\* get_next_proxy(&self, tier): the proxy (or NoProxy for None) and the
\* cursors after the call
get_next_proxy(tier, c) ==
    IF tier = 1
    THEN IF tier1_proxies = <<>> THEN [proxy |-> NoProxy, c |-> c]
         ELSE [proxy |-> tier1_proxies[c.t1 + 1],
               c |-> [c EXCEPT !.t1 = (c.t1 + 1) % Len(tier1_proxies)]]
    ELSE IF tier = 2
    THEN IF tier2_proxies = <<>> THEN [proxy |-> NoProxy, c |-> c]
         ELSE [proxy |-> tier2_proxies[c.t2 + 1],
               c |-> [c EXCEPT !.t2 = (c.t2 + 1) % Len(tier2_proxies)]]
    ELSE [proxy |-> NoProxy, c |-> c]

\* execute_tier(&self, tier, url): the attempt made with the next proxy of
\* the tier; `outcome` is what the client built for it returns
execute_tier(tier, c, outcome) ==
    LET p == IF tier = Tier0Direct THEN [proxy |-> NoProxy, c |-> c]
             ELSE IF tier = Tier1Datacenter THEN get_next_proxy(1, c)
             ELSE get_next_proxy(2, c)
    IN  [attempt |-> [tier |-> tier, proxy |-> p.proxy, outcome |-> outcome],
         c |-> p.c]

\* fetch_with_escalation surfacing the first error when every tier failed
fetch_with_escalation_first_error(c, o0, o1, o2) ==
    LET a0 == execute_tier(Tier0Direct, c, o0) IN
    IF o0.kind = "Ok" \/ ~should_escalate(o0)
    THEN [attempts |-> <<a0.attempt>>, result |-> o0, c |-> a0.c]
    ELSE LET a1 == execute_tier(Tier1Datacenter, a0.c, o1) IN
         IF o1.kind = "Ok" \/ ~should_escalate(o1)
         THEN [attempts |-> <<a0.attempt, a1.attempt>>, result |-> o1, c |-> a1.c]
         ELSE LET a2 == execute_tier(Tier2Residential, a1.c, o2) IN
              [attempts |-> <<a0.attempt, a1.attempt, a2.attempt>>,
               result |-> IF o2.kind = "Ok" THEN o2 ELSE o0, c |-> a2.c]

\* fetch_with_escalation(&self, url): the attempts made, the returned
\* value and the cursors; o0, o1, o2 are what the three tiers would answer
fetch_with_escalation(c, o0, o1, o2) ==
    LET a0 == execute_tier(Tier0Direct, c, o0) IN
    IF o0.kind = "Ok" \/ ~should_escalate(o0)
    THEN [attempts |-> <<a0.attempt>>, result |-> o0, c |-> a0.c]
    ELSE LET a1 == execute_tier(Tier1Datacenter, a0.c, o1) IN
         IF o1.kind = "Ok" \/ ~should_escalate(o1)
         THEN [attempts |-> <<a0.attempt, a1.attempt>>, result |-> o1, c |-> a1.c]
         ELSE LET a2 == execute_tier(Tier2Residential, a1.c, o2) IN
              [attempts |-> <<a0.attempt, a1.attempt, a2.attempt>>,
               result |-> o2, c |-> a2.c]

FetchWithEscalation(u, o0, o1, o2) ==
    /\ LET r == fetch_with_escalation([t1 |-> t1_idx, t2 |-> t2_idx], o0, o1, o2) IN
        /\ t1_idx' = r.c.t1
        /\ t2_idx' = r.c.t2
        /\ px_last' = [url |-> u, attempts |-> r.attempts, result |-> r.result]
    /\ UNCHANGED <<tier1_proxies, tier2_proxies>>

----------------------------------------------------------------------------
(* MemoryMonitor (engine/dispatcher.rs) *)

PRESSURE_THRESHOLD_HIGH == 90
PRESSURE_THRESHOLD_LOW  == 85

\* get_ram_usage_percent(&self), as the exact ratio num / den
get_ram_usage_percent(used, total) ==
    IF total = 0 THEN [num |-> 0, den |-> 1]
    ELSE [num |-> used * 100, den |-> total]

PctGreater(p, threshold) == p.num > threshold * p.den
PctLess(p, threshold)    == p.num < threshold * p.den

\* the loop body entering pressure at the threshold already (>= for >)
monitor_tick_ge(flag, ram_percent) ==
    IF ~PctLess(ram_percent, PRESSURE_THRESHOLD_HIGH) /\ ~flag THEN TRUE
    ELSE IF PctLess(ram_percent, PRESSURE_THRESHOLD_LOW) /\ flag THEN FALSE
    ELSE flag

\* one iteration of the loop of spawn_monitor: the flag after the tick
monitor_tick(flag, ram_percent) ==
    IF PctGreater(ram_percent, PRESSURE_THRESHOLD_HIGH) /\ ~flag THEN TRUE
    ELSE IF PctLess(ram_percent, PRESSURE_THRESHOLD_LOW) /\ flag THEN FALSE
    ELSE flag

MonitorTick(used, total) ==
    /\ ram_used' = used
    /\ ram_total' = total
    /\ is_under_pressure' =
           monitor_tick(is_under_pressure, get_ram_usage_percent(used, total))

----------------------------------------------------------------------------
(* normalize_url (engine/normalization.rs) over character sequences *)

\* the bound on the number of pairs in an input query
MaxPairs == 2

\* printable ASCII, in byte order: AsciiPrintable[i] is the byte 31 + i
\* (the double quote, the backslash and the backtick are spelled out)
AsciiPrintable ==
    << " ", "!", "DQUOTE", "#", "$", "%", "&", "'", "(", ")", "*", "+", ",", "-", ".", "/",
       "0", "1", "2", "3", "4", "5", "6", "7", "8", "9", ":", ";", "<", "=", ">", "?",
       "@", "A", "B", "C", "D", "E", "F", "G", "H", "I", "J", "K", "L", "M", "N", "O",
       "P", "Q", "R", "S", "T", "U", "V", "W", "X", "Y", "Z", "[", "BACKSLASH", "]", "^", "_",
       "BACKTICK", "a", "b", "c", "d", "e", "f", "g", "h", "i", "j", "k", "l", "m", "n", "o",
       "p", "q", "r", "s", "t", "u", "v", "w", "x", "y", "z", "{", "|", "}", "~" >>

Chars == {AsciiPrintable[i] : i \in 1..Len(AsciiPrintable)}
CodeTable == [c \in Chars |-> 31 + CHOOSE i \in 1..Len(AsciiPrintable) : AsciiPrintable[i] = c]
Code(c) == CodeTable[c]
CharOf(byte) == AsciiPrintable[byte - 31]

Some(x) == [some |-> TRUE, v |-> x]
None    == [some |-> FALSE, v |-> <<>>]

IndexOf(s, c) ==
    IF \E i \in 1..Len(s) : s[i] = c
    THEN CHOOSE i \in 1..Len(s) : s[i] = c /\ \A j \in 1..(i - 1) : s[j] # c
    ELSE 0

LastIndexOf(s, c) ==
    IF \E i \in 1..Len(s) : s[i] = c
    THEN CHOOSE i \in 1..Len(s) : s[i] = c /\ \A j \in (i + 1)..Len(s) : s[j] # c
    ELSE 0

StartsWith(s, prefix) ==
    Len(s) >= Len(prefix) /\ SubSeq(s, 1, Len(prefix)) = prefix

\* str::split(sep)
RECURSIVE Split(_, _)
Split(s, sep) ==
    LET i == IndexOf(s, sep) IN
    IF i = 0 THEN <<s>>
    ELSE <<SubSeq(s, 1, i - 1)>> \o Split(SubSeq(s, i + 1, Len(s)), sep)

\* Ord for str: byte-wise lexicographic order
RECURSIVE StrLess(_, _)
StrLess(a, b) ==
    IF b = <<>> THEN FALSE
    ELSE IF a = <<>> THEN TRUE
    ELSE IF a[1] = b[1] THEN StrLess(Tail(a), Tail(b))
    ELSE Code(a[1]) < Code(b[1])

\* to_lowercase left out: keys are matched as written
to_lowercase_id(s) == s

\* str::to_lowercase (on ASCII)
to_lowercase(s) ==
    [i \in 1..Len(s) |->
        IF Code(s[i]) \in 65..90 THEN CharOf(Code(s[i]) + 32) ELSE s[i]]

HexDigits == <<"0", "1", "2", "3", "4", "5", "6", "7", "8", "9", "A", "B", "C", "D", "E", "F">>
HexDigitsLower == <<"0", "1", "2", "3", "4", "5", "6", "7", "8", "9", "a", "b", "c", "d", "e", "f">>
HexVal(c) ==
    IF \E i \in 1..16 : c \in {HexDigits[i], HexDigitsLower[i]}
    THEN (CHOOSE i \in 1..16 : c \in {HexDigits[i], HexDigitsLower[i]}) - 1
    ELSE -1

\* the decoding left out: names and values are taken as written
form_decode_raw(s) == s

\* form_urlencoded::parse's decode: '+' is a space, %XX is the byte XX (the
\* inputs of the model decode to printable ASCII)
RECURSIVE form_decode(_)
form_decode(s) ==
    IF s = <<>> THEN <<>>
    ELSE IF s[1] = "+" THEN <<" ">> \o form_decode(Tail(s))
    ELSE IF s[1] = "%" /\ Len(s) >= 3 /\ HexVal(s[2]) >= 0 /\ HexVal(s[3]) >= 0
         THEN <<CharOf(16 * HexVal(s[2]) + HexVal(s[3]))>>
              \o form_decode(SubSeq(s, 4, Len(s)))
    ELSE <<s[1]>> \o form_decode(Tail(s))

\* form_urlencoded::byte_serialize: alphanumerics and * - . _ stay, a space
\* becomes '+', every other byte becomes %XX in upper-case hex
Unreserved(c) ==
    \/ Code(c) \in 48..57 \/ Code(c) \in 65..90 \/ Code(c) \in 97..122
    \/ c \in {"*", "-", ".", "_"}

RECURSIVE byte_serialize(_)
byte_serialize(s) ==
    IF s = <<>> THEN <<>>
    ELSE (IF Unreserved(s[1]) THEN <<s[1]>>
          ELSE IF s[1] = " " THEN <<"+">>
          ELSE <<"%", HexDigits[(Code(s[1]) \div 16) + 1], HexDigits[(Code(s[1]) % 16) + 1]>>)
         \o byte_serialize(Tail(s))

\* Url::query_pairs (form_urlencoded::parse): the decoded (name, value)
\* pairs of the non-empty '&'-separated segments, in order
RECURSIVE parse_segments(_)
parse_segments(segs) ==
    IF segs = <<>> THEN <<>>
    ELSE LET seg == Head(segs)
             i   == IndexOf(seg, "=")
             k   == IF i = 0 THEN seg ELSE SubSeq(seg, 1, i - 1)
             v   == IF i = 0 THEN <<>> ELSE SubSeq(seg, i + 1, Len(seg))
         IN  (IF seg = <<>> THEN <<>>
              ELSE << [k |-> form_decode(k), v |-> form_decode(v)] >>)
             \o parse_segments(Tail(segs))

query_pairs(query) ==
    IF query.some THEN parse_segments(Split(query.v, "&")) ELSE <<>>

\* BTreeMap::insert: entries ordered by key, one entry per key, a second
\* insert of a key replaces the value
btree_insert(m, k, v) ==
    IF \E i \in 1..Len(m) : m[i].k = k
    THEN [i \in 1..Len(m) |-> IF m[i].k = k THEN [k |-> k, v |-> v] ELSE m[i]]
    ELSE LET n == Cardinality({i \in 1..Len(m) : StrLess(m[i].k, k)}) IN
         SubSeq(m, 1, n) \o << [k |-> k, v |-> v] >> \o SubSeq(m, n + 1, Len(m))

drop_params ==
    { <<"u","t","m","_","s","o","u","r","c","e">>,
      <<"u","t","m","_","m","e","d","i","u","m">>,
      <<"u","t","m","_","c","a","m","p","a","i","g","n">>,
      <<"u","t","m","_","t","e","r","m">>,
      <<"u","t","m","_","c","o","n","t","e","n","t">>,
      <<"g","c","l","i","d">>, <<"f","b","c","l","i","d">>, <<"r","e","f">>,
      <<"y","c","l","i","d">>, <<"_","g","a">> }

\* the loop over url.query_pairs() that fills clean_pairs
RECURSIVE clean_pairs(_, _)
clean_pairs(pairs, m) ==
    IF pairs = <<>> THEN m
    ELSE LET p == Head(pairs)
             key_lower == to_lowercase(p.k)
         IN  clean_pairs(Tail(pairs),
                         IF key_lower \notin drop_params
                         THEN btree_insert(m, p.k, p.v) ELSE m)

\* serializer.clear() followed by append_pair for every entry
RECURSIVE append_pairs(_)
append_pairs(m) ==
    IF m = <<>> THEN <<>>
    ELSE byte_serialize(m[1].k) \o <<"=">> \o byte_serialize(m[1].v)
         \o (IF Len(m) > 1 THEN <<"&">> ELSE <<>>) \o append_pairs(Tail(m))

Https == <<"h", "t", "t", "p", "s", ":", "/", "/">>

\* the path, query and fragment of the text after the authority, or of a
\* relative reference
split_reference(s) ==
    LET h  == IndexOf(s, "#")
        b  == IF h = 0 THEN s ELSE SubSeq(s, 1, h - 1)
        q  == IndexOf(b, "?")
    IN  [path     |-> IF q = 0 THEN b ELSE SubSeq(b, 1, q - 1),
         query    |-> IF q = 0 THEN None ELSE Some(SubSeq(b, q + 1, Len(b))),
         fragment |-> IF h = 0 THEN None ELSE Some(SubSeq(s, h + 1, Len(s)))]

UrlErr == [ok |-> FALSE, host |-> <<>>, path |-> <<>>, query |-> None, fragment |-> None]

\* Url::parse for https URLs: the host is lower-cased by the parser, an
\* empty path is "/"; anything without the scheme is not an absolute URL
url_parse(s) ==
    IF ~StartsWith(s, Https) THEN UrlErr
    ELSE LET rest == SubSeq(s, Len(Https) + 1, Len(s))
             ends == {i \in 1..Len(rest) : rest[i] \in {"/", "?", "#"}}
             e    == IF ends = {} THEN Len(rest) + 1
                     ELSE CHOOSE i \in ends : \A j \in ends : i <= j
             host == SubSeq(rest, 1, e - 1)
             r    == split_reference(SubSeq(rest, e, Len(rest)))
         IN  IF host = <<>> THEN UrlErr
             ELSE [ok |-> TRUE, host |-> to_lowercase(host),
                   path |-> IF r.path = <<>> THEN <<"/">> ELSE r.path,
                   query |-> r.query, fragment |-> r.fragment]

\* Url::join: an absolute href is parsed on its own; a relative one takes
\* the base's host, resolves its path against the base's path, and keeps the
\* base's query only when it has neither a path nor a query of its own
url_join(base, h) ==
    IF StartsWith(h, Https) THEN url_parse(h)
    ELSE LET r == split_reference(h) IN
         [ok |-> TRUE, host |-> base.host,
          path |-> IF r.path = <<>> THEN base.path
                   ELSE IF r.path[1] = "/" THEN r.path
                   ELSE SubSeq(base.path, 1, LastIndexOf(base.path, "/")) \o r.path,
          query |-> IF r.path = <<>> /\ ~r.query.some THEN base.query ELSE r.query,
          fragment |-> r.fragment]

\* Url::to_string
url_to_string(u) ==
    Https \o u.host \o u.path
    \o (IF u.query.some THEN <<"?">> \o u.query.v ELSE <<>>)
    \o (IF u.fragment.some THEN <<"#">> \o u.fragment.v ELSE <<>>)

\* normalize_url(href, base_url)
normalize_url(h, b) ==
    LET base == url_parse(b) IN
    IF ~base.ok THEN None
    ELSE LET url == url_join(base, h) IN
         IF ~url.ok THEN None
         ELSE LET url2 == [url EXCEPT !.fragment = None]
                  url3 == [url2 EXCEPT !.host = to_lowercase(url2.host)]
                  m    == clean_pairs(query_pairs(url3.query), <<>>)
                  url4 == [url3 EXCEPT !.query =
                              IF m = <<>> THEN None ELSE Some(append_pairs(m))]
              IN  Some(url_to_string(url4))

\* ---- the inputs of the model

KeyTokens ==
    { <<"a">>, <<"B">>, <<"r","e","f">>,
      <<"U","T","M","_","S","o","u","r","c","e">>, <<"%","7","2","e","f">> }
ValueTokens == { <<>>, <<"1">>, <<"~">>, <<"+", "%", "7", "e">> }
\* a segment is `key=value`, or the bare key
Segments ==
    {k \o <<"=">> \o v : k \in KeyTokens, v \in ValueTokens \ {<<>>}} \cup KeyTokens

RECURSIVE JoinAmp(_)
JoinAmp(segs) ==
    IF segs = <<>> THEN <<>>
    ELSE Head(segs) \o (IF Len(segs) > 1 THEN <<"&">> ELSE <<>>) \o JoinAmp(Tail(segs))

QueryTexts ==
    {<<>>} \cup {<<"?">> \o JoinAmp(segs) :
                    segs \in UNION {[1..n -> Segments] : n \in 0..MaxPairs}}
HrefPaths ==
    { <<>>, <<"/", "p">>, <<"p">>, Https \o <<"B", ".", "c", "o", "/", "q">> }
FragmentTexts == { <<>>, <<"#", "f">> }
Hrefs == {p \o q \o f : p \in HrefPaths, q \in QueryTexts, f \in FragmentTexts}
Bases ==
    { Https \o <<"A", ".", "c", "o">>,
      Https \o <<"a", ".", "c", "o", "/", "d", "/", "e", "?", "r", "e", "f", "=", "1", "&", "z", "=", "1">>,
      <<"n", "o", "p", "e">> }

Normalize ==
    /\ norm_pc = "input"
    /\ norm_out' = normalize_url(href, base_url)
    /\ norm_pc' = "once"
    /\ UNCHANGED <<href, base_url, norm_again>>

NormalizeAgain ==
    /\ norm_pc = "once"
    /\ norm_out.some
    /\ norm_again' = normalize_url(norm_out.v, base_url)
    /\ norm_pc' = "twice"
    /\ UNCHANGED <<href, base_url, norm_out>>

----------------------------------------------------------------------------
(* FastClient (network/client.rs) over character sequences *)

\* a body shorter than this many bytes is an empty response
MIN_BODY_LEN == 500

\* the alternatives of ban_title_regex, in the order the pattern lists them
ban_title_regex ==
    << <<"J", "u", "s", "t", " ", "a", " ", "m", "o", "m", "e", "n", "t">>,
       <<"A", "t", "t", "e", "n", "t", "i", "o", "n", " ", "R", "e", "q", "u", "i", "r", "e", "d">>,
       <<"S", "e", "c", "u", "r", "i", "t", "y", " ", "C", "h", "e", "c", "k">>,
       <<"A", "c", "c", "e", "s", "s", " ", "D", "e", "n", "i", "e", "d">>,
       <<"C", "l", "o", "u", "d", "f", "l", "a", "r", "e">>,
       <<"C", "a", "p", "t", "c", "h", "a">> >>

\* the literal signatures detect_soft_ban looks for, in array order
signatures ==
    << <<"c", "a", "p", "t", "c", "h", "a", "-", "d", "e", "l", "i", "v", "e", "r", "y">>,
       <<"c", "f", "-", "t", "u", "r", "n", "s", "t", "i", "l", "e">>,
       <<"d", "a", "t", "a", "d", "o", "m", "e">>,
       <<"c", "h", "a", "l", "l", "e", "n", "g", "e", "-", "p", "l", "a", "t", "f", "o", "r", "m">> >>

TitleTrigger == <<"T", "i", "t", "l", "e", " ", "T", "r", "i", "g", "g", "e", "r", ":", " ">>
BodyTrigger  == <<"B", "o", "d", "y", " ", "T", "r", "i", "g", "g", "e", "r", ":", " ">>

\* the text starting at position i of s equals p
MatchAt(s, i, p) ==
    /\ i + Len(p) - 1 <= Len(s)
    /\ s[i] = p[1]
    /\ SubSeq(s, i, i + Len(p) - 1) = p

\* str::contains(pat)
contains(s, pat) == pat = <<>> \/ \E i \in 1..Len(s) : MatchAt(s, i, pat)

\* Regex::find for the (?i) alternation: the leftmost position where an
\* alternative matches ignoring ASCII case, the first such alternative
\* there, and the matched text as the body spells it
regex_find(body) ==
    LET lb    == to_lowercase(body)
        alt   == [k \in 1..Len(ban_title_regex) |-> to_lowercase(ban_title_regex[k])]
        hits  == {i \in 1..Len(body) : \E k \in 1..Len(alt) : MatchAt(lb, i, alt[k])}
    IN  IF hits = {} THEN None
        ELSE LET i == CHOOSE h \in hits : \A g \in hits : h <= g
                 k == CHOOSE a \in 1..Len(alt) :
                        /\ MatchAt(lb, i, alt[a])
                        /\ \A b \in 1..(a - 1) : ~MatchAt(lb, i, alt[b])
             IN  Some(SubSeq(body, i, i + Len(alt[k]) - 1))

\* what FastClient::fetch returns (or that it panicked)
FcOk(body)         == [kind |-> "Ok",            code |-> 0,   text |-> body]
FcHardBan(status)  == [kind |-> "HardBan",       code |-> status, text |-> <<>>]
FcSoftBan(msg)     == [kind |-> "SoftBan",       code |-> 0,   text |-> msg]
FcEmptyResponse(n) == [kind |-> "EmptyResponse", code |-> n,   text |-> <<>>]
FcReqwest(status)  == [kind |-> "Reqwest",       code |-> status, text |-> <<>>]
FcPanic(status)    == [kind |-> "Panic",         code |-> status, text |-> <<>>]
FcNone             == [kind |-> "None",          code |-> 0,   text |-> <<>>]

\* detect_soft_ban(&self, body): Err(SoftBan) or FcNone for Ok(())
detect_soft_ban(body) ==
    LET cap == regex_find(body) IN
    IF cap.some THEN FcSoftBan(TitleTrigger \o cap.v)
    ELSE IF \E k \in 1..Len(signatures) : contains(body, signatures[k])
    THEN LET k == CHOOSE a \in 1..Len(signatures) :
                    /\ contains(body, signatures[a])
                    /\ \A b \in 1..(a - 1) : ~contains(body, signatures[b])
         IN  FcSoftBan(BodyTrigger \o signatures[k])
    ELSE FcNone

\* StatusCode::is_success
is_success(status) == status \in 200..299

\* Response::error_for_status: Err for 4xx and 5xx, Ok(response) otherwise
error_for_status(status) ==
    IF status \in 400..599 THEN Err ELSE Ok(status)

\* fetch(&self, url), for the answer `resp` the server gives: io says whether
\* send() and text() succeed; unwrap_err() on an Ok value panics
fetch(resp) ==
    IF resp.io = "send_err" THEN FcReqwest(0)
    ELSE IF resp.status = 403 \/ resp.status = 429 THEN FcHardBan(resp.status)
    ELSE IF ~is_success(resp.status)
    THEN IF error_for_status(resp.status).ok THEN FcPanic(resp.status)
         ELSE FcReqwest(resp.status)
    ELSE IF resp.io = "text_err" THEN FcReqwest(0)
    ELSE IF Len(resp.body) < MIN_BODY_LEN THEN FcEmptyResponse(Len(resp.body))
    ELSE LET ban == detect_soft_ban(resp.body) IN
         IF ban.kind = "SoftBan" THEN ban ELSE FcOk(resp.body)

\* ---- the answers of the model's servers

\* length of the longest filler fragment
MaxFill == 499
\* a body is made of at most this many fragments
MaxFrags == 3

Filler(n) == [i \in 1..n |-> "x"]
Fragments ==
    { Filler(MaxFill), <<"z">>,
      <<"J", "u", "s", "t", " ", "A", " ", "M", "o", "m", "e", "n", "t">>,
      <<"c", "f", "-", "t", "u", "r", "n", "s", "t", "i", "l", "e">>,
      <<"C", "F", "-", "T", "U", "R", "N", "S", "T", "I", "L", "E">>,
      <<"d", "a", "t", "a", "d", "o", "m", "e">> }
RECURSIVE Concat(_)
Concat(fs) == IF fs = <<>> THEN <<>> ELSE Head(fs) \o Concat(Tail(fs))
Bodies == {Concat(fs) : fs \in UNION {[1..n -> Fragments] : n \in 0..MaxFrags}}
Statuses == {200, 204, 304, 403, 404, 429, 500}
NoResponse == [io |-> "none", status |-> 0, body |-> <<>>]
Responses ==
    {[io |-> "send_err", status |-> 0, body |-> <<>>]}
    \cup [io : {"ok"}, status : Statuses, body : Bodies]
    \cup [io : {"text_err"}, status : {200}, body : {<<>>}]

\* one call of fetch: the server's answer is fixed when the request is sent
Fetch ==
    /\ fc_last.resp.io # "none"
    /\ fc_last.ret = FcNone
    /\ fc_last' = [fc_last EXCEPT !.ret = fetch(fc_last.resp)]


----------------------------------------------------------------------------
(* CircuitBreaker calls running concurrently on one domain: every Redis    *)
(* command is one step, and calls of different tasks interleave between    *)
(* the commands (at the awaits)                                            *)

\* INCR is applied at most this many times in a concurrent run
MaxIncr == 5

\* the tasks: two call record_failure in a loop, one calls check in a loop
Recorders == {"r1", "r2"}
Checkers  == {"c1"}
Tasks     == Recorders \cup Checkers
\* the domain all tasks work on
SharedDomain == "d.com"
NoCheckYet == -1

\* record_failure, l.134: INCR, which also decides the commands that follow
RfIncr(p) ==
    /\ cc_pc[p] = "idle"
    /\ cc_incs < MaxIncr
    /\ LET key   == failure_key(SharedDomain)
           st    == RedisIncr(RedisNow, key)
           count == st.kv[key].v
       IN  /\ redis' = st.kv
           /\ redis_ttl' = st.ttl
           /\ cc_local' = [cc_local EXCEPT ![p] = count]
           /\ cc_incs' = cc_incs + 1
           /\ IF count = 1
              THEN cc_pc' = [cc_pc EXCEPT ![p] = "expire"] /\ UNCHANGED cc_returned
              ELSE IF count > FAILURE_THRESHOLD
              THEN cc_pc' = [cc_pc EXCEPT ![p] = "trip"] /\ UNCHANGED cc_returned
              ELSE /\ cc_pc' = [cc_pc EXCEPT ![p] = "idle"]
                   /\ cc_returned' = Append(cc_returned, count)
    /\ UNCHANGED cc_checked

\* record_failure, l.137-139: EXPIRE after the first INCR, then Ok(count)
RfExpire(p) ==
    /\ cc_pc[p] = "expire"
    /\ LET st == RedisExpire(RedisNow, failure_key(SharedDomain), FAILURE_TTL_SECS) IN
        /\ redis' = st.kv
        /\ redis_ttl' = st.ttl
    /\ cc_pc' = [cc_pc EXCEPT ![p] = "idle"]
    /\ cc_returned' = Append(cc_returned, cc_local[p])
    /\ UNCHANGED <<cc_local, cc_incs, cc_checked>>

\* record_failure, l.144-146: trip_circuit above the threshold, then Ok(count)
RfTrip(p) ==
    /\ cc_pc[p] = "trip"
    /\ LET st == trip_circuit(RedisNow, SharedDomain) IN
        /\ redis' = st.kv
        /\ redis_ttl' = st.ttl
    /\ cc_pc' = [cc_pc EXCEPT ![p] = "idle"]
    /\ cc_returned' = Append(cc_returned, cc_local[p])
    /\ UNCHANGED <<cc_local, cc_incs, cc_checked>>

\* check, l.88-99: GET of the flag; a true flag returns at once
CkFlag(p) ==
    /\ cc_pc[p] = "idle"
    /\ LET rfb == unwrap_or(FromRedisBool(redis[config_key(SharedDomain)]), FALSE) IN
        IF rfb
        THEN /\ cc_checked' = [prev |-> cc_checked.last,
                               last |-> CircuitCheckResult(Open, FAILURE_THRESHOLD + 1, TRUE).failure_count]
             /\ UNCHANGED cc_pc
        ELSE /\ cc_pc' = [cc_pc EXCEPT ![p] = "count"]
             /\ UNCHANGED cc_checked
    /\ UNCHANGED <<redisVars, cc_local, cc_incs, cc_returned>>

\* check, l.102-117: GET of the counter and the result built from it
CkCount(p) ==
    /\ cc_pc[p] = "count"
    /\ LET fc == unwrap_or(FromRedisU32(redis[failure_key(SharedDomain)]), 0) IN
        cc_checked' = [prev |-> cc_checked.last, last |-> fc]
    /\ cc_pc' = [cc_pc EXCEPT ![p] = "idle"]
    /\ UNCHANGED <<redisVars, cc_local, cc_incs, cc_returned>>

----------------------------------------------------------------------------
(* RobotstxtParser (engine/rate_limiter.rs) over character sequences; a    *)
(* u64 is four 16-bit limbs, least significant first                       *)

LimbBase == 65536
LimbCount == 4

U64Zero == [i \in 1..LimbCount |-> 0]
U64Max  == [i \in 1..LimbCount |-> LimbBase - 1]

\* x * k + a for small k and a: the low 64 bits and the carry out of them
RECURSIVE MulAddFrom(_, _, _, _)
MulAddFrom(x, k, carry, i) ==
    IF i > LimbCount THEN [v |-> <<>>, carry |-> carry]
    ELSE LET t    == x[i] * k + carry
             rest == MulAddFrom(x, k, t \div LimbBase, i + 1)
         IN  [v |-> <<t % LimbBase>> \o rest.v, carry |-> rest.carry]
MulAdd(x, k, a) == MulAddFrom(x, k, a, 1)

\* the u64 of a small natural number
U64(n) == MulAdd(U64Zero, 1, n).v

\* `f as u64` for a non-negative decimal given by its digits: the integer,
\* or u64::MAX when it does not fit (the cast saturates)
RECURSIVE DigitsAsU64(_, _)
DigitsAsU64(ds, acc) ==
    IF ds = <<>> THEN acc
    ELSE LET r == MulAdd(acc, 10, Code(Head(ds)) - 48) IN
         IF r.carry > 0 THEN U64Max ELSE DigitsAsU64(Tail(ds), r.v)

Digits == {"0", "1", "2", "3", "4", "5", "6", "7", "8", "9"}
AllDigits(s) == s # <<>> /\ \A i \in 1..Len(s) : s[i] \in Digits

\* str::parse::<f64> on the decimal forms `digits` and `digits.digits`:
\* the integer and fraction digits; other texts of the model do not parse
parse_f64(s) ==
    LET dot == IndexOf(s, ".") IN
    IF dot = 0
    THEN IF AllDigits(s) THEN Ok([int |-> s, frac |-> <<>>]) ELSE Err
    ELSE LET ip == SubSeq(s, 1, dot - 1)
             fp == SubSeq(s, dot + 1, Len(s))
         IN  IF AllDigits(ip) /\ AllDigits(fp) THEN Ok([int |-> ip, frac |-> fp]) ELSE Err

\* (delay * 1000.0) as u64: the decimal point moves three places and the
\* rest of the fraction is cut off
delay_to_ms(delay) ==
    LET f3 == SubSeq(delay.frac \o <<"0", "0", "0">>, 1, 3) IN
    DigitsAsU64(delay.int \o f3, U64Zero)

\* str::trim (the only white space of the model is the space)
RECURSIVE trim_start(_)
trim_start(s) == IF s # <<>> /\ Head(s) = " " THEN trim_start(Tail(s)) ELSE s
RECURSIVE trim_end(_)
trim_end(s) ==
    IF s # <<>> /\ s[Len(s)] = " " THEN trim_end(SubSeq(s, 1, Len(s) - 1)) ELSE s
trim(s) == trim_end(trim_start(s))

\* str::lines: the text between line feeds, without a final empty line
lines(text) ==
    LET parts == Split(text, "LF") IN
    IF parts[Len(parts)] = <<>> THEN SubSeq(parts, 1, Len(parts) - 1) ELSE parts

UserAgentDirective  == <<"u", "s", "e", "r", "-", "a", "g", "e", "n", "t", ":">>
CrawlDelayDirective == <<"c", "r", "a", "w", "l", "-", "d", "e", "l", "a", "y", ":">>

\* RobotstxtParser.user_agent
user_agent == <<"M", "o", "z", "i", "l", "l", "a", "/", "5", ".", "0", " ", "C", "h", "r", "o", "m", "e", "/", "1", "2", "0">>

\* the agent of a User-agent line matches: l.105-108
agent_matches(line) ==
    LET agent == trim(SubSeq(line, 12, Len(line))) IN
    agent = <<"*">> \/ contains(to_lowercase(user_agent), to_lowercase(agent))

\* the delay a Crawl-delay line gives, if any: l.113-117
line_delay(line) ==
    LET parts == Split(line, ":") IN
    IF Len(parts) < 2 THEN None
    ELSE LET delay == parse_f64(trim(parts[2])) IN
         IF delay.ok THEN Some(delay_to_ms(delay.v)) ELSE None

\* the loop of extract_crawl_delay over the remaining lines: l.93-120
RECURSIVE extract_loop(_, _, _)
extract_loop(ls, in_matching_agent_block, found_delay) ==
    IF ls = <<>> THEN found_delay
    ELSE LET line == trim(Head(ls)) IN
         IF line = <<>> \/ Head(line) = "#"
         THEN extract_loop(Tail(ls), in_matching_agent_block, found_delay)
         ELSE LET lowercase_line == to_lowercase(line)
                  in_block == IF StartsWith(lowercase_line, UserAgentDirective)
                              THEN agent_matches(line)
                              ELSE in_matching_agent_block
                  found == IF in_block /\ StartsWith(lowercase_line, CrawlDelayDirective)
                              /\ line_delay(line).some
                           THEN line_delay(line)
                           ELSE found_delay
              IN  extract_loop(Tail(ls), in_block, found)

\* extract_crawl_delay(&self, robots_txt)
extract_crawl_delay(robots_txt) ==
    LET found_delay == extract_loop(lines(robots_txt), FALSE, None) IN
    IF found_delay.some THEN found_delay.v ELSE U64(DEFAULT_CRAWL_DELAY_MS)

\* the value parse_crawl_delay and Default build, or that the call panicked
RbNone   == [kind |-> "none",   standard_delay_ms |-> U64Zero, slow_path_delay_ms |-> U64Zero]
RbPanic  == [kind |-> "panic",  standard_delay_ms |-> U64Zero, slow_path_delay_ms |-> U64Zero]
RbConfig(standard, slow) ==
    [kind |-> "config", standard_delay_ms |-> standard, slow_path_delay_ms |-> slow]

\* parse_crawl_delay(&self, robots_txt); a u64 product that overflows
\* panics when the build checks overflow and wraps when it does not
parse_crawl_delay(robots_txt, overflow_checks) ==
    LET crawl_delay_ms == extract_crawl_delay(robots_txt)
        product == MulAdd(crawl_delay_ms, SLOW_PATH_MULTIPLIER, 0)
    IN  IF product.carry > 0 /\ overflow_checks THEN RbPanic
        ELSE RbConfig(crawl_delay_ms, product.v)

\* CrawlDelayConfig::default()
default_config ==
    RbConfig(U64(DEFAULT_CRAWL_DELAY_MS), U64(DEFAULT_CRAWL_DELAY_MS * SLOW_PATH_MULTIPLIER))

\* the config register_domain builds, l.224-226
robots_config(robots_txt, overflow_checks) ==
    IF robots_txt.some THEN parse_crawl_delay(robots_txt.v, overflow_checks)
    ELSE default_config

\* ---- the robots.txt files of the model

\* a robots.txt has at most this many lines
MaxLines == 4

RobotsLines ==
    { <<"U", "s", "e", "r", "-", "a", "g", "e", "n", "t", ":", " ", "*">>,
      <<"u", "s", "e", "r", "-", "a", "g", "e", "n", "t", ":", " ", "c", "h", "r", "o", "m", "e">>,
      <<"U", "s", "e", "r", "-", "a", "g", "e", "n", "t", ":", " ", "O", "t", "h", "e", "r", "B", "o", "t">>,
      <<"C", "r", "a", "w", "l", "-", "d", "e", "l", "a", "y", ":", " ", "2">>,
      <<" ", " ", "c", "r", "a", "w", "l", "-", "d", "e", "l", "a", "y", ":", "0", ".", "5", " ">>,
      <<"C", "r", "a", "w", "l", "-", "d", "e", "l", "a", "y", ":", " ", "9", "3", "0", "0", "0", "0", "0", "0", "0", "0", "0", "0", "0", "0", "0", "0">>,
      <<"D", "i", "s", "a", "l", "l", "o", "w", ":", " ", "/", "p", "r", "i", "v", "a", "t", "e", "/">>,
      <<"#", " ", "C", "r", "a", "w", "l", "-", "d", "e", "l", "a", "y", ":", " ", "9">> }
RECURSIVE JoinLines(_)
JoinLines(ls) ==
    IF ls = <<>> THEN <<>> ELSE Head(ls) \o <<"LF">> \o JoinLines(Tail(ls))
RobotsTexts ==
    {JoinLines(ls) : ls \in UNION {[1..n -> RobotsLines] : n \in 0..MaxLines}}

\* one call of parse through register_domain, in a build with or without
\* overflow checks
ParseCrawlDelay(overflow_checks) ==
    /\ rb_out = RbNone
    /\ rb_out' = robots_config(rb_in, overflow_checks)
    /\ UNCHANGED rb_in

----------------------------------------------------------------------------
(* DomainRateLimiter (engine/rate_limiter.rs): the governor limiter of one *)
(* domain on a millisecond clock                                           *)

\* the clock of the limiter model stops here (ms)
MaxTime == 4000
\* ms that pass in one tick of the limiter's clock
BucketStep == 250

\* DomainRateLimiter::new, l.148-152 (the delays of the model are below
\* 2^32, where `as u32` keeps the value)
requests_per_second(standard_delay_ms) ==
    IF standard_delay_ms > 0 THEN Max(1, 1000 \div standard_delay_ms) ELSE 1

\* Quota::per_second(n): one cell every 1/n s, bursts of up to n cells
Quota(n) == [replenish_1_per |-> 1000 \div n, max_burst |-> n]

\* the quota DomainRateLimiter::new gives the limiter, l.154
limiter_quota(standard_delay_ms) == Quota(requests_per_second(standard_delay_ms))

\* until_ready on the GCRA state `tat` (the time at which the bucket is
\* full again is tat - replenish_1_per): when the cell is granted, and the
\* state after it
until_ready(quota, tat, now) ==
    LET earliest == tat - (quota.max_burst - 1) * quota.replenish_1_per
        granted  == Max(now, earliest)
    IN  [at |-> granted, waited |-> granted > now,
         tat |-> Max(tat, granted) + quota.replenish_1_per]

\* acquire(&self, domain, is_slow_path) with no blacklist entry: the time
\* it returns Ok, l.309-321
acquire_at(standard_delay_ms, tat, now, is_slow_path) ==
    LET cfg   == CrawlDelayConfig(standard_delay_ms)
        cell  == until_ready(limiter_quota(standard_delay_ms), tat, now)
        extra_delay == cfg.slow_path_delay_ms - cfg.standard_delay_ms
    IN  [cell EXCEPT !.at = IF is_slow_path /\ extra_delay > 0 THEN @ + extra_delay ELSE @]

\* the standard_delay_ms values registered in the model
BucketDelays == {0, 250, 400, 500, 1000, 2000}
NoAcquire == [at |-> 0, waited |-> FALSE, is_slow_path |-> FALSE, ok |-> FALSE]

AcquireTimed(is_slow_path) ==
    LET r == acquire_at(bk_delay, bk_tat, bk_now, is_slow_path) IN
    /\ r.at <= MaxTime
    /\ bk_now' = r.at
    /\ bk_tat' = r.tat
    /\ bk_acq' = [prev |-> bk_acq.last,
                  last |-> [at |-> r.at, waited |-> r.waited,
                            is_slow_path |-> is_slow_path, ok |-> TRUE]]
    /\ UNCHANGED bk_delay

\* BucketStep ms pass without a call
TickBucket ==
    /\ bk_now + BucketStep <= MaxTime
    /\ bk_now' = bk_now + BucketStep
    /\ UNCHANGED <<bk_delay, bk_tat, bk_acq>>

----------------------------------------------------------------------------
(* ProxyManager::get_next_proxy called by concurrent tasks: taking the     *)
(* write lock, reading the pool, moving the cursor and dropping the guard  *)
(* are separate steps                                                      *)

\* each tier's lock is taken at most this many times
MaxCalls == 3

GpTasks == {"a", "b", "c"}
ProxyTiers == {1, 2}
NoHolder == "free"
NoCall == [tier |-> 0, k |-> 0, proxy |-> NoProxy]

PoolOf(tier) == IF tier = 1 THEN tier1_proxies ELSE tier2_proxies
CursorOf(tier) == IF tier = 1 THEN t1_idx ELSE t2_idx

\* the cursor moved on without wrapping
next_idx_nowrap(idx, len) == idx + 1

\* l.78 and l.85: (*idx + 1) % pool.len()
next_idx(idx, len) == (idx + 1) % len

\* an empty pool answers None before any lock is taken: l.75, l.82
GpEmpty(p, tier) ==
    /\ gp_pc[p] = "idle"
    /\ PoolOf(tier) = <<>>
    /\ gp_returned' = gp_returned \cup {[NoCall EXCEPT !.tier = tier]}
    /\ UNCHANGED <<gp_pc, gp_call, gp_lock, gp_calls, t1_idx, t2_idx>>

\* idx.write().await resolves: the task holds the tier's lock; it is the
\* k-th call to do so (k counted from 0)
GpLock(p, tier) ==
    /\ gp_pc[p] = "idle"
    /\ PoolOf(tier) # <<>>
    /\ gp_lock[tier] = NoHolder
    /\ gp_calls[tier] < MaxCalls
    /\ gp_lock' = [gp_lock EXCEPT ![tier] = p]
    /\ gp_calls' = [gp_calls EXCEPT ![tier] = @ + 1]
    /\ gp_call' = [gp_call EXCEPT ![p] = [tier |-> tier, k |-> gp_calls[tier], proxy |-> NoProxy]]
    /\ gp_pc' = [gp_pc EXCEPT ![p] = "locked"]
    /\ UNCHANGED <<gp_returned, t1_idx, t2_idx>>

\* let url = pool[*idx].clone()
GpRead(p) ==
    /\ gp_pc[p] = "locked"
    /\ gp_call' = [gp_call EXCEPT ![p].proxy =
                      PoolOf(gp_call[p].tier)[CursorOf(gp_call[p].tier) + 1]]
    /\ gp_pc' = [gp_pc EXCEPT ![p] = "read"]
    /\ UNCHANGED <<gp_lock, gp_calls, gp_returned, t1_idx, t2_idx>>

\* *idx = (*idx + 1) % pool.len()
GpAdvance(p) ==
    /\ gp_pc[p] = "read"
    /\ IF gp_call[p].tier = 1
       THEN t1_idx' = next_idx(t1_idx, Len(tier1_proxies)) /\ UNCHANGED t2_idx
       ELSE t2_idx' = next_idx(t2_idx, Len(tier2_proxies)) /\ UNCHANGED t1_idx
    /\ gp_pc' = [gp_pc EXCEPT ![p] = "advanced"]
    /\ UNCHANGED <<gp_lock, gp_calls, gp_call, gp_returned>>

\* Some(url): the guard is dropped and the call returns
GpReturn(p) ==
    /\ gp_pc[p] = "advanced"
    /\ gp_lock' = [gp_lock EXCEPT ![gp_call[p].tier] = NoHolder]
    /\ gp_pc' = [gp_pc EXCEPT ![p] = "idle"]
    /\ gp_returned' = gp_returned \cup {gp_call[p]}
    /\ UNCHANGED <<gp_calls, gp_call, t1_idx, t2_idx>>

----------------------------------------------------------------------------
(* SlowPathRenderer (engine/slow_path.rs): render runs on &mut self, one   *)
(* call at a time; every await of it is one step. The browser keeps a page *)
(* open until it is told to close it: dropping the Page handle closes      *)
(* nothing.                                                                *)

MaxRenders == 3

NoPage == 0

SlowPathResult == "Ok"
BrowserLaunch == "BrowserLaunch"
Navigation == "Navigation"
Timeout == "Timeout"
ScriptInjection == "ScriptInjection"
ContentExtraction == "ContentExtraction"
NoRender == "-"

\* `return Err(e)` and `?`: the call ends, the local `page` is dropped
RenderReturns(ret) ==
    /\ sp_pc' = "idle"
    /\ sp_page' = NoPage
    /\ sp_ret' = ret

RenderGoesOn(pc) ==
    /\ sp_pc' = pc
    /\ UNCHANGED <<sp_page, sp_ret>>

\* render starts: self.ensure_browser().await?
EnsureBrowser(launched) ==
    /\ sp_pc = "idle"
    /\ sp_calls < MaxRenders
    /\ sp_calls' = sp_calls + 1
    /\ UNCHANGED sp_pages
    /\ IF sp_browser
       THEN RenderGoesOn("new_page") /\ UNCHANGED sp_browser
       ELSE IF launched
            THEN RenderGoesOn("new_page") /\ sp_browser' = TRUE
            ELSE RenderReturns(BrowserLaunch) /\ UNCHANGED sp_browser

\* browser.new_page("about:blank").await
NewPage(ok) ==
    /\ sp_pc = "new_page"
    /\ UNCHANGED <<sp_browser, sp_calls>>
    /\ IF ok
       THEN /\ sp_page' = sp_calls
            /\ sp_pages' = sp_pages \cup {sp_calls}
            /\ sp_pc' = "stealth"
            /\ UNCHANGED sp_ret
       ELSE RenderReturns(Navigation) /\ UNCHANGED sp_pages

\* page.evaluate(STEALTH_PAYLOAD).await
EvaluateStealth(ok) ==
    /\ sp_pc = "stealth"
    /\ UNCHANGED <<sp_browser, sp_calls, sp_pages>>
    /\ IF ok THEN RenderGoesOn("console")
       ELSE RenderReturns(ScriptInjection)

\* page.evaluate(CONSOLE_CAPTURE_JS).await
EvaluateConsoleCapture(ok) ==
    /\ sp_pc = "console"
    /\ UNCHANGED <<sp_browser, sp_calls, sp_pages>>
    /\ IF ok THEN RenderGoesOn("goto")
       ELSE RenderReturns(ScriptInjection)

\* tokio::time::timeout(timeout, page.goto(url)).await and the match on it
GotoOutcomes == {"Ok(Ok)", "Ok(Err)", "Err(Elapsed)"}
Goto(navigate_result) ==
    /\ sp_pc = "goto"
    /\ UNCHANGED <<sp_browser, sp_calls, sp_pages>>
    /\ CASE navigate_result = "Ok(Ok)" -> RenderGoesOn("url")
         [] navigate_result = "Ok(Err)" -> RenderReturns(Navigation)
         [] OTHER -> RenderReturns(Timeout)

\* the 500 ms sleep, then page.url().await
PageUrl(ok) ==
    /\ sp_pc = "url"
    /\ UNCHANGED <<sp_browser, sp_calls, sp_pages>>
    /\ IF ok THEN RenderGoesOn("content")
       ELSE RenderReturns(ContentExtraction)

\* page.content().await
PageContent(ok) ==
    /\ sp_pc = "content"
    /\ UNCHANGED <<sp_browser, sp_calls, sp_pages>>
    /\ IF ok THEN RenderGoesOn("logs")
       ELSE RenderReturns(ContentExtraction)

\* self.extract_console_logs(&page).await: an error gives no logs
ExtractConsoleLogs ==
    /\ sp_pc = "logs"
    /\ UNCHANGED <<sp_browser, sp_calls, sp_pages>>
    /\ RenderGoesOn("close")

\* let _ = page.close().await; Ok(SlowPathResult { .. })
PageClose ==
    /\ sp_pc = "close"
    /\ sp_pages' = sp_pages \ {sp_page}
    /\ UNCHANGED <<sp_browser, sp_calls>>
    /\ RenderReturns(SlowPathResult)

\* shutdown: the browser process ends, and its pages with it
Shutdown ==
    /\ sp_pc = "idle"
    /\ sp_browser
    /\ sp_browser' = FALSE
    /\ sp_pages' = {}
    /\ UNCHANGED <<sp_pc, sp_page, sp_ret, sp_calls>>

----------------------------------------------------------------------------
(* queue:slow_render_tasks between concurrent handoff_to_queue calls and   *)
(* the consumers of the list: the RPUSH reaching the server and the call   *)
(* returning to its task are separate steps                                *)

HqTasks == {"h1", "h2"}
HqConsumers == {"k1", "k2"}
HqUrls == Urls \cup {"https://d.com/z"}

\* BLPOP key: the head of the list leaves it; Redis removes a list that
\* became empty
RedisBlpop(st, key) ==
    [kv  |-> [st.kv EXCEPT ![key] =
                 IF Len(st.kv[key].v) = 1 THEN RNil ELSE RList(Tail(st.kv[key].v))],
     ttl |-> [st.ttl EXCEPT ![key] = IF Len(st.kv[key].v) = 1 THEN NoExpiry ELSE @]]

\* a task calls handoff_to_queue(u) and its RPUSH, if it sends one, is
\* applied by the server
HqPush(p, u) ==
    /\ hq_pc[p] = "idle"
    /\ u \notin DOMAIN hq_before
    /\ LET st == handoff_to_queue(RedisNow, u) IN
        /\ redis' = st.kv
        /\ redis_ttl' = st.ttl
    /\ hq_pc' = [hq_pc EXCEPT ![p] = u]
    /\ hq_before' = hq_before @@ (u :> {hq_completed[i] : i \in 1..Len(hq_completed)})
    /\ hq_applied' = IF cb_redis THEN Append(hq_applied, u) ELSE hq_applied
    /\ UNCHANGED <<hq_completed, hq_delivered>>

\* the call returns Ok(()) to its task
HqReturn(p) ==
    /\ hq_pc[p] # "idle"
    /\ hq_completed' = Append(hq_completed, hq_pc[p])
    /\ hq_pc' = [hq_pc EXCEPT ![p] = "idle"]
    /\ UNCHANGED <<redisVars, hq_before, hq_applied, hq_delivered>>

\* a consumer's BLPOP is served
Blpop(k) ==
    /\ QueueOf(redis) # <<>>
    /\ LET st == RedisBlpop(RedisNow, queue_key) IN
        /\ redis' = st.kv
        /\ redis_ttl' = st.ttl
    /\ hq_delivered' = Append(hq_delivered, [consumer |-> k, url |-> Head(QueueOf(redis))])
    /\ UNCHANGED <<hq_pc, hq_before, hq_applied, hq_completed>>

----------------------------------------------------------------------------
(* Natural numbers of any size as sequences of 15-bit limbs, least          *)
(* significant first, and f64 values >= 0 as mant * 2^exp with a mantissa   *)
(* of at most 53 bits, rounded to nearest, ties to even                     *)

BigBase == 32768
LimbBits == 15
MantBits == 53

\* Op applied to the values of its operands: each operand is computed once,
\* before the operation starts
Eval1(Op(_), a) == CHOOSE r \in {Op(x) : x \in {a}} : TRUE
Eval2(Op(_, _), a, b) == CHOOSE r \in {Op(x, y) : x \in {a}, y \in {b}} : TRUE

RECURSIVE BigNorm(_)
BigNorm(a) ==
    IF a = <<>> THEN <<>>
    ELSE IF a[Len(a)] = 0 THEN BigNorm(SubSeq(a, 1, Len(a) - 1))
    ELSE a

RECURSIVE BigOfInt(_)
BigOfInt(n) == IF n = 0 THEN <<>> ELSE <<n % BigBase>> \o BigOfInt(n \div BigBase)

BigLimb(a) == IF a = <<>> THEN 0 ELSE a[1]
BigRest(a) == IF a = <<>> THEN <<>> ELSE Tail(a)

RECURSIVE BigAddC(_, _, _)
BigAddC(a, b, c) ==
    IF a = <<>> /\ b = <<>> THEN (IF c = 0 THEN <<>> ELSE <<c>>)
    ELSE LET x == BigLimb(a) + BigLimb(b) + c IN
         <<x % BigBase>> \o BigAddC(BigRest(a), BigRest(b), x \div BigBase)
BigAdd(a, b) == BigAddC(a, b, 0)

\* a - b for a >= b
RECURSIVE BigSubB(_, _, _)
BigSubB(a, b, borrow) ==
    IF a = <<>> THEN <<>>
    ELSE LET x == a[1] - BigLimb(b) - borrow IN
         <<IF x < 0 THEN x + BigBase ELSE x>>
             \o BigSubB(Tail(a), BigRest(b), IF x < 0 THEN 1 ELSE 0)
BigSub(a, b) == BigNorm(BigSubB(a, b, 0))

\* a * k + c for k, c < BigBase
RECURSIVE BigMulSmall(_, _, _)
BigMulSmall(a, k, c) ==
    IF a = <<>> THEN (IF c = 0 THEN <<>> ELSE <<c>>)
    ELSE LET x == a[1] * k + c IN
         <<x % BigBase>> \o BigMulSmall(Tail(a), k, x \div BigBase)

RECURSIVE BigMul(_, _)
BigMul(a, b) ==
    IF a = <<>> \/ b = <<>> THEN <<>>
    ELSE Eval2(LAMBDA lo, hi : Eval1(BigNorm, BigAdd(lo, <<0>> \o hi)),
               BigMulSmall(a, b[1], 0), BigMul(a, Tail(b)))

\* quotient and remainder of a by d, for 0 < d < BigBase
RECURSIVE BigDivSmall(_, _)
BigDivSmall(a, d) ==
    IF a = <<>> THEN [q |-> <<>>, r |-> 0]
    ELSE LET Step(hi, cur) == [q |-> BigNorm(<<cur \div d>> \o hi.q), r |-> cur % d]
         IN  Eval1(LAMBDA hi : Eval2(Step, hi, hi.r * BigBase + a[1]),
                   BigDivSmall(Tail(a), d))

RECURSIVE Pow2(_)
Pow2(k) == IF k = 0 THEN 1 ELSE 2 * Pow2(k - 1)

Zeros(n) == [i \in 1..n |-> 0]

BigShl(a, k) ==
    IF a = <<>> THEN <<>>
    ELSE Zeros(k \div LimbBits) \o BigMulSmall(a, Pow2(k % LimbBits), 0)

BigShr(a, k) ==
    LET q == k \div LimbBits IN
    IF Len(a) <= q THEN <<>>
    ELSE BigDivSmall(SubSeq(a, q + 1, Len(a)), Pow2(k % LimbBits)).q

RECURSIVE BitLenSmall(_)
BitLenSmall(n) == IF n = 0 THEN 0 ELSE 1 + BitLenSmall(n \div 2)
BitLen(a) ==
    IF a = <<>> THEN 0 ELSE LimbBits * (Len(a) - 1) + BitLenSmall(a[Len(a)])

\* -1, 0, 1 as a < b, a = b, a > b
RECURSIVE BigCmpFrom(_, _, _)
BigCmpFrom(a, b, i) ==
    IF i = 0 THEN 0
    ELSE IF a[i] < b[i] THEN -1
    ELSE IF a[i] > b[i] THEN 1
    ELSE BigCmpFrom(a, b, i - 1)
BigCmp(a, b) ==
    IF Len(a) < Len(b) THEN -1
    ELSE IF Len(a) > Len(b) THEN 1
    ELSE BigCmpFrom(a, b, Len(a))

BigOdd(a) == a # <<>> /\ a[1] % 2 = 1

F64(m, e) == [mant |-> m, exp |-> e]

RECURSIVE TrailingZerosSmall(_)
TrailingZerosSmall(n) == IF n % 2 = 1 THEN 0 ELSE 1 + TrailingZerosSmall(n \div 2)

\* the number of zero bits below the lowest set bit of a # <<>>
RECURSIVE TrailingZeros(_)
TrailingZeros(a) ==
    IF a[1] = 0 THEN LimbBits + TrailingZeros(Tail(a)) ELSE TrailingZerosSmall(a[1])

\* mant * 2^exp with the mantissa odd or zero, so that equal values are
\* equal records
F64Canon(mant, exp) ==
    LET Canon(m, e) ==
            IF m = <<>> THEN F64(<<>>, 0)
            ELSE IF BigOdd(m) THEN F64(m, e)
            ELSE Eval2(F64, Eval2(BigShr, m, TrailingZeros(m)), e + TrailingZeros(m))
    IN  Eval2(Canon, mant, exp)

\* the f64 nearest to mant * 2^exp, ties to even
F64Round(mant, exp) ==
    LET RoundUp(m, q, s) ==
            LET rem  == Eval2(BigSub, m, Eval2(BigShl, q, s))
                half == Eval2(BigCmp, rem, Eval2(BigShl, <<1>>, s - 1))
            IN  Eval1(LAMBDA h : h > 0 \/ (h = 0 /\ BigOdd(q)), half)
        Rounded(m, e) ==
            IF BitLen(m) <= MantBits THEN F64Canon(m, e)
            ELSE LET Shifted(q, s) ==
                         F64Canon(IF RoundUp(m, q, s) THEN BigAdd(q, <<1>>) ELSE q, e + s)
                     Shift(s) == Eval2(Shifted, Eval2(BigShr, m, s), s)
                 IN  Eval1(Shift, BitLen(m) - MantBits)
    IN  Eval2(Rounded, mant, exp)

F64OfInt(n) == F64Canon(Eval1(BigOfInt, n), 0)

\* mantissas of x and y at their common exponent
Aligned(a, b) ==
    LET AlignedAt(x, y) ==
            LET e == IF x.exp <= y.exp THEN x.exp ELSE y.exp IN
            [x |-> BigShl(x.mant, x.exp - e), y |-> BigShl(y.mant, y.exp - e), exp |-> e]
    IN  Eval2(AlignedAt, a, b)

F64Cmp(x, y) ==
    Eval1(LAMBDA al : BigCmp(al.x, al.y), Aligned(x, y))

F64Add(x, y) ==
    Eval1(LAMBDA al : F64Round(BigAdd(al.x, al.y), al.exp), Aligned(x, y))

\* x - y for x >= y
F64Sub(x, y) ==
    Eval1(LAMBDA al : F64Round(BigSub(al.x, al.y), al.exp), Aligned(x, y))

F64Mul(x, y) ==
    Eval2(LAMBDA a, b : F64Round(BigMul(a.mant, b.mant), a.exp + b.exp), x, y)

\* n as f64 / d as f64 for integers n >= 0 and 0 < d < BigBase: the
\* quotient to DivBits binary places with a sticky bit, then rounded
DivBits == 75
F64DivInt(n, d) ==
    LET Quotient(r) ==
            F64Round(BigAdd(Eval2(BigShl, r.q, 1), IF r.r = 0 THEN <<>> ELSE <<1>>),
                     0 - DivBits - 1)
    IN  Eval1(Quotient,
              Eval2(BigDivSmall, Eval2(BigShl, Eval1(BigOfInt, n), DivBits), d))

F64Min(x, y) == Eval2(LAMBDA a, b : IF F64Cmp(a, b) <= 0 THEN a ELSE b, x, y)

----------------------------------------------------------------------------
(* DensityMetrics (engine/density.rs) in f64 arithmetic, over documents of *)
(* the shape <html><head></head><body>[<article>]nodes[</article>]</body>  *)
(* </html>, each node a <p> or an <a href="/l"> holding words separated by *)
(* single spaces                                                           *)

MaxNodes == 2
MaxWords == 8

\* a decimal literal num/den of the source as the f64 nearest to it
F64Lit(num, den) == F64DivInt(num, den)

SLOW_PATH_THRESHOLD  == F64Lit(12, 25)
TEXT_DENSITY_WEIGHT  == F64Lit(2, 5)
LINK_DENSITY_WEIGHT  == F64Lit(1, 5)
TAG_SCORE_WEIGHT     == F64Lit(1, 5)
HIGH_VALUE_TAG_SCORE == F64Lit(3, 2)
LOW_VALUE_TAG_SCORE  == F64Lit(1, 2)
F64Zero == F64OfInt(0)
F64One  == F64OfInt(1)

Fast == "Fast"
Slow == "Slow"

WordCounts == {0, 1, 4, MaxWords}
WordLens == {1, 6}
DocNodes == [link : BOOLEAN, words : WordCounts, wlen : WordLens]
DocNodeSeqs == UNION {[1..n -> DocNodes] : n \in 0..MaxNodes}
DensityDocs == [article : BOOLEAN, nodes : DocNodeSeqs]

\* the bytes of a node's text: its words and the spaces between them
TextLen(node) ==
    IF node.words = 0 THEN 0 ELSE node.words * node.wlen + node.words - 1

\* `<p>` + `</p>`, `<a href="/l">` + `</a>`
NodeHtmlLen(node) == (IF node.link THEN 17 ELSE 7) + TextLen(node)

RECURSIVE SumOver(_, _, _)
SumOver(nodes, i, kind) ==
    IF i > Len(nodes) THEN 0
    ELSE (CASE kind = "words" -> nodes[i].words
            [] kind = "text"  -> TextLen(nodes[i])
            [] kind = "link"  -> IF nodes[i].link THEN TextLen(nodes[i]) ELSE 0
            [] OTHER          -> NodeHtmlLen(nodes[i]))
         + SumOver(nodes, i + 1, kind)

\* document.root_element().html().len()
HtmlLen(doc) ==
    39 + (IF doc.article THEN 19 ELSE 0) + SumOver(doc.nodes, 1, "html")

\* compute_text_density without the clamp to 1.0
compute_text_density_unclamped(document) ==
    LET text_len == SumOver(document.nodes, 1, "words")
        html_len == HtmlLen(document)
    IN  IF html_len = 0 THEN F64Zero
        ELSE F64DivInt(text_len * 10, html_len)

\* compute_text_density(document): text_len * 10 is exact in f64
compute_text_density(document) ==
    LET text_len == SumOver(document.nodes, 1, "words")
        html_len == HtmlLen(document)
    IN  IF html_len = 0 THEN F64Zero
        ELSE F64Min(F64DivInt(text_len * 10, html_len), F64One)

\* compute_link_density(document)
compute_link_density(document) ==
    LET total_text_len == SumOver(document.nodes, 1, "text")
        link_text_len  == SumOver(document.nodes, 1, "link")
    IN  IF total_text_len = 0 THEN F64Zero
        ELSE F64Sub(F64One, F64Min(F64DivInt(link_text_len, total_text_len), F64One))

\* compute_tag_score(document)
compute_tag_score(document) ==
    IF document.article THEN HIGH_VALUE_TAG_SCORE ELSE LOW_VALUE_TAG_SCORE

\* DensityMetrics::compute(html), on the parsed document
compute(document) ==
    LET text_density == compute_text_density(document)
        link_density == compute_link_density(document)
        tag_score    == compute_tag_score(document)
        final_score  == F64Add(F64Add(F64Mul(TEXT_DENSITY_WEIGHT, text_density),
                                      F64Mul(LINK_DENSITY_WEIGHT, link_density)),
                               F64Mul(TAG_SCORE_WEIGHT, tag_score))
    IN  [text_density |-> text_density,
         link_density |-> link_density,
         tag_score    |-> tag_score,
         final_score  |-> final_score,
         routing      |-> IF F64Cmp(final_score, SLOW_PATH_THRESHOLD) < 0
                          THEN Slow ELSE Fast]

DnNone == [routing |-> "-"]

Compute ==
    /\ dn_out = DnNone
    /\ dn_out' = compute(dn_doc)
    /\ UNCHANGED dn_doc

(* ------------------------------------------------------------------------ *)
(* xxh64 (engine/fingerprint.rs, engine/circuit_breaker.rs): the 64-bit      *)
(* XXH64 digest of a byte string, on u64 values kept as 15-bit limbs         *)

PRIME64_1 == <<19079, 3031, 26310, 29115, 9>>
PRIME64_2 == <<27471, 20393, 14580, 5525, 12>>
PRIME64_3 == <<31225, 15470, 7878, 12979, 1>>
PRIME64_4 == <<11875, 1381, 10719, 12126, 8>>
PRIME64_5 == <<26565, 11436, 11452, 16039, 2>>

\* a mod 2^64
Wrap64(a) ==
    Eval1(LAMBDA x : IF Len(x) < 5 THEN x
                     ELSE Eval1(BigNorm, SubSeq(x, 1, 4) \o <<x[5] % 16>>), a)

\* a u64 value: at most 64 bits
IsU64(a) == Len(a) < 5 \/ (Len(a) = 5 /\ a[5] < 16)

\* the operations on u64 values: each computes its operands once, before
\* it combines them
wrapping_add(a, b) ==
    Eval2(LAMBDA x, y : CASE IsU64(x) /\ IsU64(y) -> Wrap64(BigAdd(x, y)), a, b)
wrapping_sub(a, b) ==
    Eval2(LAMBDA x, y : CASE IsU64(x) /\ IsU64(y) ->
                            Wrap64(Eval2(BigSub, BigAdd(x, <<0, 0, 0, 0, 16>>), y)), a, b)
wrapping_mul(a, b) ==
    Eval2(LAMBDA x, y : CASE IsU64(x) /\ IsU64(y) -> Wrap64(BigMul(x, y)), a, b)

RECURSIVE XorSmall(_, _)
XorSmall(a, b) ==
    IF a = 0 THEN b
    ELSE IF b = 0 THEN a
    ELSE ((a + b) % 2) + 2 * XorSmall(a \div 2, b \div 2)

RECURSIVE BigXorLimbs(_, _)
BigXorLimbs(a, b) ==
    IF a = <<>> THEN b
    ELSE IF b = <<>> THEN a
    ELSE <<XorSmall(Head(a), Head(b))>> \o BigXorLimbs(Tail(a), Tail(b))
BigXor(a, b) ==
    Eval2(LAMBDA x, y : CASE IsU64(x) /\ IsU64(y) -> Eval1(BigNorm, BigXorLimbs(x, y)), a, b)

rotate_left(x, r) ==
    Eval1(LAMBDA v : CASE IsU64(v) ->
                         Eval1(BigNorm, Eval2(BigAdd, Wrap64(BigShl(v, r)), BigShr(v, 64 - r))),
          x)

\* the little-endian integer of a run of bytes
RECURSIVE read_le(_)
read_le(bytes) ==
    IF bytes = <<>> THEN <<>>
    ELSE Eval1(LAMBDA hi : Eval1(BigNorm, BigMulSmall(hi, 256, Head(bytes))),
               read_le(Tail(bytes)))

xxh_round(acc, input) ==
    wrapping_mul(rotate_left(wrapping_add(acc, wrapping_mul(input, PRIME64_2)), 31),
                 PRIME64_1)

xxh_merge_round(acc, val) ==
    wrapping_add(wrapping_mul(BigXor(acc, xxh_round(<<>>, val)), PRIME64_1), PRIME64_4)

xxh_avalanche(h) ==
    LET Mix(v, shift) == BigXor(v, BigShr(v, shift))
        h1 == wrapping_mul(Mix(h, 33), PRIME64_2)
        h2 == wrapping_mul(Eval2(Mix, h1, 29), PRIME64_3)
    IN  Eval2(Mix, h2, 32)

\* the 32-byte stripes, four lanes each: the lanes after the last whole
\* stripe and the bytes left over
RECURSIVE xxh_stripes(_)
xxh_stripes(st) ==
    IF Len(st.rest) < 32 THEN st
    ELSE Eval1(xxh_stripes,
            [v    |-> << xxh_round(st.v[1], read_le(SubSeq(st.rest, 1, 8))),
                         xxh_round(st.v[2], read_le(SubSeq(st.rest, 9, 16))),
                         xxh_round(st.v[3], read_le(SubSeq(st.rest, 17, 24))),
                         xxh_round(st.v[4], read_le(SubSeq(st.rest, 25, 32))) >>,
             rest |-> SubSeq(st.rest, 33, Len(st.rest))])

\* the tail of fewer than 32 bytes: 8 bytes, then 4, then 1 at a time
RECURSIVE xxh_finalize(_)
xxh_finalize(st) ==
    IF Len(st.rest) >= 8 THEN
        Eval1(xxh_finalize,
            [h    |-> wrapping_add(
                          wrapping_mul(
                              rotate_left(BigXor(st.h, xxh_round(<<>>, read_le(SubSeq(st.rest, 1, 8)))), 27),
                              PRIME64_1),
                          PRIME64_4),
             rest |-> SubSeq(st.rest, 9, Len(st.rest))])
    ELSE IF Len(st.rest) >= 4 THEN
        Eval1(xxh_finalize,
            [h    |-> wrapping_add(
                          wrapping_mul(
                              rotate_left(BigXor(st.h, wrapping_mul(read_le(SubSeq(st.rest, 1, 4)), PRIME64_1)), 23),
                              PRIME64_2),
                          PRIME64_3),
             rest |-> SubSeq(st.rest, 5, Len(st.rest))])
    ELSE IF Len(st.rest) >= 1 THEN
        Eval1(xxh_finalize,
            [h    |-> wrapping_mul(
                          rotate_left(BigXor(st.h, wrapping_mul(<<st.rest[1]>>, PRIME64_5)), 11),
                          PRIME64_1),
             rest |-> SubSeq(st.rest, 2, Len(st.rest))])
    ELSE xxh_avalanche(st.h)

xxh64(bytes, seed) ==
    LET Acc(s) ==
            wrapping_add(wrapping_add(rotate_left(s.v[1], 1), rotate_left(s.v[2], 7)),
                         wrapping_add(rotate_left(s.v[3], 12), rotate_left(s.v[4], 18)))
        Merged(s, acc) ==
            xxh_merge_round(xxh_merge_round(xxh_merge_round(xxh_merge_round(
                acc, s.v[1]), s.v[2]), s.v[3]), s.v[4])
        H(s) == IF Len(bytes) >= 32
                THEN Eval2(Merged, s, Acc(s))
                ELSE wrapping_add(seed, PRIME64_5)
        Finish(s) ==
            Eval1(xxh_finalize,
                  [h |-> wrapping_add(H(s), BigOfInt(Len(bytes))), rest |-> s.rest])
    IN  Eval1(Finish,
              Eval1(xxh_stripes,
                    [v    |-> << wrapping_add(wrapping_add(seed, PRIME64_1), PRIME64_2),
                                 wrapping_add(seed, PRIME64_2),
                                 seed,
                                 wrapping_sub(seed, PRIME64_1) >>,
                     rest |-> SubSeq(bytes, 1, Len(bytes))]))

\* the bytes of a string of printable ASCII characters
as_bytes(s) == [i \in 1..Len(s) |-> Code(s[i])]

(* ------------------------------------------------------------------------ *)
(* Head fingerprinting (engine/fingerprint.rs): the four regex-identified    *)
(* head fields of a raw HTML text, their canonical string and its digest     *)

\* the elements of a pattern: a literal text matched ignoring ASCII case,
\* one character of a class, a greedy run of a class, the bounds of
\* the capture group, an alternation of literals
Lit(text)     == <<[k |-> "lit",   c |-> text, alts |-> <<>>]>>
One(cls)      == [k |-> "one",   c |-> cls, alts |-> <<>>]
Star(cls)     == [k |-> "star",  c |-> cls, alts |-> <<>>]
GroupOpen     == [k |-> "open",  c |-> "-", alts |-> <<>>]
GroupClose    == [k |-> "close", c |-> "-", alts |-> <<>>]
Alt(texts)    == [k |-> "alt",   c |-> "-", alts |-> texts]

\* [^>], [^<], \s (the only white space of the model is the space), ["'],
\* [^"']
InClass(cls, c) ==
    CASE cls = "not_gt"    -> c # ">"
      [] cls = "not_lt"    -> c # "<"
      [] cls = "space"     -> c = " "
      [] cls = "quote"     -> c \in {"DQUOTE", "'"}
      [] cls = "not_quote" -> c \notin {"DQUOTE", "'"}

TITLE_REGEX ==
    Lit(<<"<", "t", "i", "t", "l", "e">>) \o <<Star("not_gt")>> \o Lit(<<">">>) \o <<GroupOpen, Star("not_lt"), GroupClose>> \o Lit(<<"<", "/", "t", "i", "t", "l", "e", ">">>)

META_DESC_REGEX ==
    Lit(<<"<", "m", "e", "t", "a">>) \o <<Star("not_gt")>> \o Lit(<<"n", "a", "m", "e">>) \o <<Star("space")>> \o Lit(<<"=">>) \o <<Star("space"), One("quote")>>
    \o Lit(<<"d", "e", "s", "c", "r", "i", "p", "t", "i", "o", "n">>)
    \o <<One("quote"), Star("not_gt")>> \o Lit(<<"c", "o", "n", "t", "e", "n", "t">>) \o <<Star("space")>> \o Lit(<<"=">>) \o <<Star("space"), One("quote"), GroupOpen, Star("not_quote"), GroupClose, One("quote")>>

OG_UPDATED_REGEX ==
    Lit(<<"<", "m", "e", "t", "a">>) \o <<Star("not_gt")>> \o Lit(<<"p", "r", "o", "p", "e", "r", "t", "y">>) \o <<Star("space")>> \o Lit(<<"=">>) \o <<Star("space"), One("quote")>>
    \o Lit(<<"o", "g", ":", "u", "p", "d", "a", "t", "e", "d", "_", "t", "i", "m", "e">>)
    \o <<One("quote"), Star("not_gt")>> \o Lit(<<"c", "o", "n", "t", "e", "n", "t">>) \o <<Star("space")>> \o Lit(<<"=">>) \o <<Star("space"), One("quote"), GroupOpen, Star("not_quote"), GroupClose, One("quote")>>

LAST_MODIFIED_REGEX ==
    Lit(<<"<", "m", "e", "t", "a">>) \o <<Star("not_gt")>> \o <<Alt(<<Lit(<<"n", "a", "m", "e">>), Lit(<<"h", "t", "t", "p", "-", "e", "q", "u", "i", "v">>)>>)>> \o <<Star("space")>> \o Lit(<<"=">>) \o <<Star("space"), One("quote")>>
    \o Lit(<<"l", "a", "s", "t", "-", "m", "o", "d", "i", "f", "i", "e", "d">>)
    \o <<One("quote"), Star("not_gt")>> \o Lit(<<"c", "o", "n", "t", "e", "n", "t">>) \o <<Star("space")>> \o Lit(<<"=">>) \o <<Star("space"), One("quote"), GroupOpen, Star("not_quote"), GroupClose, One("quote")>>

NoMatch == [ok |-> FALSE, end |-> 0, open |-> 0, close |-> 0]

MinOf(S) == CHOOSE x \in S : \A y \in S : x <= y

\* the number of characters of the class from position i on
RunLen(cls, s, i) ==
    LET stops == {j \in i..Len(s) : ~InClass(cls, s[j])} IN
    IF stops = {} THEN Len(s) + 1 - i ELSE MinOf(stops) - i

\* the match of a pattern at position i of s, as the backtracking search
\* finds it: a run takes as many characters as the rest of the pattern
\* allows, an alternation its first alternative that the rest allows
RECURSIVE MatchHere(_, _, _)
RECURSIVE AltTry(_, _, _, _)
StarTry(rest, s, i, n) ==
    LET tries == {[k |-> k, r |-> MatchHere(rest, s, i + k)] : k \in 0..n}
        hits  == {t \in tries : t.r.ok}
    IN  IF hits = {} THEN NoMatch
        ELSE (CHOOSE t \in hits : \A u \in hits : t.k >= u.k).r
MatchHere(pat, s, i) ==
    IF pat = <<>> THEN [ok |-> TRUE, end |-> i, open |-> 0, close |-> 0]
    ELSE LET e == Head(pat) IN
         CASE e.k = "lit"   -> IF MatchAt(s, i, e.c)
                               THEN MatchHere(Tail(pat), s, i + Len(e.c)) ELSE NoMatch
           [] e.k = "one"   -> IF i <= Len(s) /\ InClass(e.c, s[i])
                               THEN MatchHere(Tail(pat), s, i + 1) ELSE NoMatch
           [] e.k = "star"  -> StarTry(Tail(pat), s, i, RunLen(e.c, s, i))
           [] e.k = "open"  -> LET r == MatchHere(Tail(pat), s, i) IN
                               IF r.ok THEN [r EXCEPT !.open = i] ELSE r
           [] e.k = "close" -> LET r == MatchHere(Tail(pat), s, i) IN
                               IF r.ok THEN [r EXCEPT !.close = i] ELSE r
           [] e.k = "alt"   -> AltTry(e.alts, Tail(pat), s, i)
AltTry(alts, rest, s, i) ==
    IF alts = <<>> THEN NoMatch
    ELSE LET r == MatchHere(Head(alts) \o rest, s, i) IN
         IF r.ok THEN r ELSE AltTry(Tail(alts), rest, s, i)

\* Regex::captures(html).and_then(|c| c.get(1)) under (?i): the capture
\* group of the leftmost match, as the text spells it (a match of a
\* pattern that begins with a literal starts at that literal's first
\* character)
captures(pat, html) ==
    LET lower == SubSeq(to_lowercase(html), 1, Len(html))
        first == {i \in 1..Len(html) : Head(pat).k = "lit" => lower[i] = Head(pat).c[1]}
        tries == {[i |-> i, r |-> MatchHere(pat, lower, i)] : i \in first \cup {Len(html) + 1}}
        hits  == {t \in tries : t.r.ok}
    IN  IF hits = {} THEN None
        ELSE LET r == (CHOOSE t \in hits : \A u \in hits : t.i <= u.i).r IN
             Some(SubSeq(html, r.open, r.close - 1))

\* Option::map(|m| m.as_str().trim().to_string())
map_trim(m) == IF m.some THEN Some(trim(m.v)) ELSE None

\* extract without the trim of the captured text
extract_untrimmed(html) ==
    [ title           |-> captures(TITLE_REGEX, html),
      description     |-> captures(META_DESC_REGEX, html),
      og_updated_time |-> captures(OG_UPDATED_REGEX, html),
      last_modified   |-> captures(LAST_MODIFIED_REGEX, html) ]

\* HeadMetadata::extract
extract(html) ==
    [ title           |-> map_trim(captures(TITLE_REGEX, html)),
      description     |-> map_trim(captures(META_DESC_REGEX, html)),
      og_updated_time |-> map_trim(captures(OG_UPDATED_REGEX, html)),
      last_modified   |-> map_trim(captures(LAST_MODIFIED_REGEX, html)) ]

\* Option::as_deref().unwrap_or("")
unwrap_or_empty(m) == IF m.some THEN m.v ELSE <<>>

\* HeadMetadata::to_canonical_string
to_canonical_string(metadata) ==
    <<"t", ":">> \o unwrap_or_empty(metadata.title)
    \o <<";", "d", ":">> \o unwrap_or_empty(metadata.description)
    \o <<";", "o", "u", ":">> \o unwrap_or_empty(metadata.og_updated_time)
    \o <<";", "l", "m", ":">> \o unwrap_or_empty(metadata.last_modified)

compute_head_fingerprint(html) ==
    xxh64(as_bytes(to_canonical_string(extract(html))), <<>>)

has_content_changed(new_fingerprint, cached_fingerprint) ==
    new_fingerprint # cached_fingerprint

\* the documents handed to compute_head_fingerprint: the four fields as
\* section 4.9 of the specification writes them, each present or not, with
\* title and description values made of a letter and of the text ";d:";
\* a document is written plainly, or dressed: `dress` spaces around every
\* field value and as many paragraphs of body text, and for an odd dress
\* upper-case tags, single quotes, further attributes and a meta tag that
\* is none of the four
MaxDress == 1

FpValues == {None, Some(<<"x">>), Some(<<";", "d", ":">>), Some(<<"x", ";", "d", ":">>)}
FpHeads ==
    {[title |-> t, description |-> d,
      og_updated_time |-> IF dated THEN Some(<<"2", "0", "2", "4", "-", "0", "1", "-", "1", "5">>) ELSE None,
      last_modified   |-> IF dated THEN Some(<<"M", "o", "n">>) ELSE None] :
        t \in FpValues, d \in FpValues, dated \in BOOLEAN}

FpDocs == [head : FpHeads, dress : 0..MaxDress]
\* the documents whose fingerprint is in the cache
FpCachedDocs == {d \in FpDocs : d.dress = 0}
FpBlank ==
    [head |-> [title |-> None, description |-> None, og_updated_time |-> None,
               last_modified |-> None],
     dress |-> 0]

Pad(n) == [i \in 1..n |-> " "]
RECURSIVE Repeat(_, _)
Repeat(text, n) == IF n = 0 THEN <<>> ELSE text \o Repeat(text, n - 1)

\* one field of the head: nothing when the document does not have it
HeadField(field, pad, before, after) ==
    IF field.some THEN before \o Pad(pad) \o field.v \o Pad(pad) \o after ELSE <<>>

RenderHtml(doc) ==
    IF doc.dress % 2 = 0 THEN
        <<"<", "h", "t", "m", "l", ">", "<", "h", "e", "a", "d", ">">>
        \o HeadField(doc.head.title, doc.dress, <<"<", "t", "i", "t", "l", "e", ">">>, <<"<", "/", "t", "i", "t", "l", "e", ">">>)
        \o HeadField(doc.head.description, doc.dress,
                     <<"<", "m", "e", "t", "a", " ", "n", "a", "m", "e", "=", "DQUOTE", "d", "e", "s", "c", "r", "i", "p", "t", "i", "o", "n", "DQUOTE", " ", "c", "o", "n", "t", "e", "n", "t", "=", "DQUOTE">>,
                     <<"DQUOTE", ">">>)
        \o HeadField(doc.head.og_updated_time, doc.dress,
                     <<"<", "m", "e", "t", "a", " ", "p", "r", "o", "p", "e", "r", "t", "y", "=", "DQUOTE", "o", "g", ":", "u", "p", "d", "a", "t", "e", "d", "_", "t", "i", "m", "e", "DQUOTE", " ", "c", "o", "n", "t", "e", "n", "t", "=", "DQUOTE">>,
                     <<"DQUOTE", ">">>)
        \o HeadField(doc.head.last_modified, doc.dress,
                     <<"<", "m", "e", "t", "a", " ", "n", "a", "m", "e", "=", "DQUOTE", "l", "a", "s", "t", "-", "m", "o", "d", "i", "f", "i", "e", "d", "DQUOTE", " ", "c", "o", "n", "t", "e", "n", "t", "=", "DQUOTE">>,
                     <<"DQUOTE", ">">>)
        \o <<"<", "/", "h", "e", "a", "d", ">", "<", "b", "o", "d", "y", ">">>
        \o Repeat(<<"<", "p", ">", "w", "o", "r", "d", "<", "/", "p", ">">>, doc.dress)
        \o <<"<", "/", "b", "o", "d", "y", ">", "<", "/", "h", "t", "m", "l", ">">>
    ELSE
        <<"<", "H", "T", "M", "L", ">", "<", "H", "E", "A", "D", ">", "<", "m", "e", "t", "a", " ", "n", "a", "m", "e", "=", "DQUOTE", "k", "e", "y", "w", "o", "r", "d", "s", "DQUOTE", " ", "c", "o", "n", "t", "e", "n", "t", "=", "DQUOTE", "k", "DQUOTE", ">">>
        \o HeadField(doc.head.title, doc.dress, <<"<", "T", "I", "T", "L", "E", " ", "l", "a", "n", "g", "=", "'", "e", "n", "'", ">">>, <<"<", "/", "T", "I", "T", "L", "E", ">">>)
        \o HeadField(doc.head.description, doc.dress,
                     <<"<", "M", "E", "T", "A", " ", " ", "N", "A", "M", "E", " ", "=", " ", "'", "d", "e", "s", "c", "r", "i", "p", "t", "i", "o", "n", "'", " ", "i", "d", "=", "'", "m", "'", " ", "C", "O", "N", "T", "E", "N", "T", " ", "=", " ", "'">>,
                     <<"'", " ", "/", ">">>)
        \o HeadField(doc.head.og_updated_time, doc.dress,
                     <<"<", "M", "E", "T", "A", " ", "P", "R", "O", "P", "E", "R", "T", "Y", "=", "'", "o", "g", ":", "u", "p", "d", "a", "t", "e", "d", "_", "t", "i", "m", "e", "'", " ", "C", "O", "N", "T", "E", "N", "T", "=", "'">>,
                     <<"'", ">">>)
        \o HeadField(doc.head.last_modified, doc.dress,
                     <<"<", "M", "E", "T", "A", " ", "H", "T", "T", "P", "-", "E", "Q", "U", "I", "V", "=", "'", "L", "a", "s", "t", "-", "M", "o", "d", "i", "f", "i", "e", "d", "'", " ", "C", "O", "N", "T", "E", "N", "T", "=", "'">>,
                     <<"'", ">">>)
        \o <<"<", "/", "H", "E", "A", "D", ">", "<", "B", "O", "D", "Y", ">">>
        \o Repeat(<<"<", "P", ">", "a", " ", "t", "i", "t", "l", "e", ":", " ", "a", "n", "d", " ", ";", "d", ":", " ", "i", "n", " ", "t", "e", "x", "t", "<", "/", "P", ">">>, doc.dress)
        \o <<"<", "/", "B", "O", "D", "Y", ">", "<", "/", "H", "T", "M", "L", ">">>

FpNone == [changed |-> "-"]

\* what the check of a page with fingerprint new_fingerprint yields
Checked(new_fingerprint) ==
    [new_fingerprint |-> new_fingerprint,
     changed         |-> has_content_changed(new_fingerprint, fp_stored)]

\* a page fetched again: its fingerprint is computed and compared with the
\* one stored for the page as it was
CheckChanged ==
    /\ fp_out = FpNone
    /\ fp_out' = Checked(compute_head_fingerprint(RenderHtml(fp_new)))
    /\ UNCHANGED <<fp_new, fp_cached, fp_stored>>

(* ------------------------------------------------------------------------ *)
(* The cookie jars of an escalation (network/proxy.rs execute_tier,          *)
(* network/client.rs FastClient::new): every attempt builds its client,      *)
(* whose cookie store keeps what the responses set and sends it with the     *)
(* later requests of that client (redirects followed by the same client)     *)

MaxFetches == 2
MaxRedirects == 1

NoClient == [proxy |-> NoProxy, jar |-> {}]
NoRequest == [call |-> 0, tier |-> Tier0Direct, hop |-> 0, cookies |-> {}]
JarOutcomes == {FetchOk, SoftBan, Reqwest}

\* FastClient::new keeping the cookie store of the client before it
FastClientNew_shared_jar(proxy_url) == [proxy |-> proxy_url, jar |-> jar_client.jar]

\* FastClient::new(proxy_url): Client::builder().cookie_store(true) builds
\* a client with a cookie store of its own, empty
FastClientNew(proxy_url) == [proxy |-> proxy_url, jar |-> {}]

\* execute_tier up to `let client = FastClient::new(proxy_url.as_deref())?`
BuildClient(tier) ==
    LET c == [t1 |-> t1_idx, t2 |-> t2_idx]
        p == IF tier = Tier0Direct THEN [proxy |-> NoProxy, c |-> c]
             ELSE IF tier = Tier1Datacenter THEN get_next_proxy(1, c)
             ELSE get_next_proxy(2, c)
    IN  /\ jar_client' = FastClientNew(p.proxy)
        /\ t1_idx' = p.c.t1
        /\ t2_idx' = p.c.t2

\* the request the client sends now, with the cookies of its store
JarRequest ==
    [call |-> jar_call, tier |-> jar_tier, hop |-> jar_hops, cookies |-> jar_client.jar]

\* the store after a response that sets a cookie or none
JarStored(set_cookie) ==
    IF set_cookie
    THEN jar_client.jar \cup {[call |-> jar_call, tier |-> jar_tier, hop |-> jar_hops]}
    ELSE jar_client.jar

\* the attempts in which a cookie was stored, after that response
JarAttempts(set_cookie) ==
    IF set_cookie THEN jar_stored \cup {[call |-> jar_call, tier |-> jar_tier]}
    ELSE jar_stored

\* fetch_with_escalation is called: the Tier-0 attempt starts
JarFetch ==
    /\ jar_pc = "idle"
    /\ jar_call < MaxFetches
    /\ jar_call' = jar_call + 1
    /\ jar_tier' = Tier0Direct
    /\ BuildClient(Tier0Direct)
    /\ jar_hops' = 0
    /\ jar_pc' = "send"
    /\ UNCHANGED <<jar_sent, jar_stored, tier1_proxies, tier2_proxies, px_last>>

\* self.inner.get(url).send(): a request answered by a redirect, which the
\* same client follows
JarRedirect(set_cookie) ==
    /\ jar_pc = "send"
    /\ jar_hops < MaxRedirects
    /\ jar_sent' = JarRequest
    /\ jar_client' = [jar_client EXCEPT !.jar = JarStored(set_cookie)]
    /\ jar_stored' = JarAttempts(set_cookie)
    /\ jar_hops' = jar_hops + 1
    /\ UNCHANGED <<jar_pc, jar_call, jar_tier, pxVars>>

\* a request answered for good: client.fetch returns `outcome`, the client
\* is dropped, and fetch_with_escalation returns or goes on with the
\* attempt of the next tier
JarAnswer(set_cookie, outcome) ==
    /\ jar_pc = "send"
    /\ jar_sent' = JarRequest
    /\ jar_stored' = JarAttempts(set_cookie)
    /\ jar_hops' = 0
    /\ IF outcome.kind # "Ok" /\ should_escalate(outcome) /\ jar_tier < Tier2Residential
       THEN /\ jar_tier' = jar_tier + 1
            /\ BuildClient(jar_tier + 1)
            /\ UNCHANGED <<jar_pc, jar_call>>
       ELSE /\ jar_pc' = "idle"
            /\ jar_client' = NoClient
            /\ UNCHANGED <<jar_call, jar_tier, t1_idx, t2_idx>>
    /\ UNCHANGED <<tier1_proxies, tier2_proxies, px_last>>

(* ------------------------------------------------------------------------ *)
(* RateLimitManager::acquire called by concurrent tasks on one domain       *)
(* (engine/rate_limiter.rs): the EXISTS of the blacklist key, the lookup    *)
(* under the read lock, the insert under the write lock, the wait for the   *)
(* token and the slow-path sleep are separate steps (the awaits of the      *)
(* call), and calls of other tasks run between them                         *)

\* DomainRateLimiter values built in a run (each has a bucket of its own)
MaxLimiters == 3

AqTasks == {"a1", "a2"}
NoLimiter == [id |-> 0, standard_delay_ms |-> NotRegistered]
NoAqCall == [is_slow_path |-> FALSE, limiter |-> NoLimiter, log |-> <<>>, ret |-> "-"]

\* Arc::new(DomainRateLimiter::new(domain, config)), l.224-228: a limiter
\* with a governor bucket of its own; id numbers the buckets built
NewLimiter(id, robots) ==
    [id |-> id,
     standard_delay_ms |-> IF robots = NoRobots THEN DEFAULT_CRAWL_DELAY_MS ELSE robots]

\* l.314-315
extra_delay(limiter) ==
    CrawlDelayConfig(limiter.standard_delay_ms).slow_path_delay_ms
        - CrawlDelayConfig(limiter.standard_delay_ms).standard_delay_ms

\* the extra sleep applied to every call, slow path or not
sleeps_always(is_slow_path, limiter) == extra_delay(limiter) > 0

\* l.313-319: whether the call sleeps after its token
sleeps(is_slow_path, limiter) == is_slow_path /\ extra_delay(limiter) > 0

AqStep(p, pc, call) ==
    /\ aq_pc' = [aq_pc EXCEPT ![p] = pc]
    /\ aq_call' = [aq_call EXCEPT ![p] = call]

\* acquire is called, l.303-305: is_blacklisted reads the key (EXISTS) and
\* a blacklisted domain is refused
AcqIsBlacklisted(p, is_slow_path) ==
    /\ aq_pc[p] = "idle"
    /\ LET listed == is_blacklisted(RedisNow, SharedDomain)
           call   == [NoAqCall EXCEPT !.is_slow_path = is_slow_path,
                                      !.log = <<[step |-> "blacklist", listed |-> listed]>>]
       IN  IF listed
           THEN AqStep(p, "idle", [call EXCEPT !.ret = "DomainBlacklisted"])
           ELSE AqStep(p, "get", call)
    /\ UNCHANGED <<aq_map, aq_made>>

\* get_limiter, l.245-249: the lookup under the read lock
AcqGetLimiter(p) ==
    /\ aq_pc[p] = "get"
    /\ IF aq_map # NoLimiter
       THEN AqStep(p, "wait", [aq_call[p] EXCEPT !.limiter = aq_map])
       ELSE AqStep(p, "register", aq_call[p])
    /\ UNCHANGED <<aq_map, aq_made>>

\* get_limiter, l.252: register_domain(domain, None) builds a limiter
\* and inserts it under the write lock, whatever the map holds by now
AcqRegisterDefault(p) ==
    /\ aq_pc[p] = "register"
    /\ aq_made < MaxLimiters
    /\ LET limiter == NewLimiter(aq_made + 1, NoRobots) IN
        /\ aq_map' = limiter
        /\ AqStep(p, "wait", [aq_call[p] EXCEPT !.limiter = limiter])
    /\ aq_made' = aq_made + 1

\* l.310: wait_local returns with a token of the bucket of the call's
\* limiter; l.313-321: the call goes on to sleep, or returns Ok
AcqWaitLocal(p) ==
    /\ aq_pc[p] = "wait"
    /\ LET call == [aq_call[p] EXCEPT
                       !.log = Append(@, [step |-> "token", bucket |-> aq_call[p].limiter.id])]
       IN  IF sleeps(call.is_slow_path, call.limiter)
           THEN AqStep(p, "sleep", call)
           ELSE AqStep(p, "idle", [call EXCEPT !.ret = "Ok"])
    /\ UNCHANGED <<aq_map, aq_made>>

\* l.317: tokio::time::sleep(extra_delay) is over and the call returns Ok
AcqSleep(p) ==
    /\ aq_pc[p] = "sleep"
    /\ AqStep(p, "idle",
              [aq_call[p] EXCEPT
                  !.log = Append(@, [step |-> "sleep", ms |-> extra_delay(aq_call[p].limiter)]),
                  !.ret = "Ok"])
    /\ UNCHANGED <<aq_map, aq_made>>

\* register_domain(domain, robots_txt) called by the task that fetched the
\* domain's robots.txt, l.219-241
AcqRegisterDomain(robots) ==
    /\ aq_made < MaxLimiters
    /\ aq_map' = NewLimiter(aq_made + 1, robots)
    /\ aq_made' = aq_made + 1
    /\ UNCHANGED <<aq_pc, aq_call>>

(* ------------------------------------------------------------------------ *)
(* CircuitBreaker and is_blacklisted calls over a Redis connection that can *)
(* fail (engine/circuit_breaker.rs, engine/rate_limiter.rs): every command  *)
(* is one step; a command either is applied and answered, or fails without  *)
(* being applied, and `?` then returns the error. A call can also be        *)
(* dropped at an await (its future cancelled), after which it issues no     *)
(* further command. One call runs at a time; both managers have a           *)
(* connection; the failures recorded are those of one domain.              *)

SharedUrl == "https://d.com/x"

\* the reply to a command: the value, or a RedisError when the command failed
Reply(up, val) == IF up THEN Ok(val) ELSE Err

\* check reading a failed counter GET as a counter above the threshold
get_count_or_open(reply) ==
    unwrap_or(IF reply.ok THEN FromRedisU32(reply.v) ELSE Err, FAILURE_THRESHOLD + 1)

\* check, l.102-105: redis.get(failure_key).await.unwrap_or(0)
get_count(reply) == unwrap_or(IF reply.ok THEN FromRedisU32(reply.v) ELSE Err, 0)

\* check, l.88-91: redis.get(config_key).await.unwrap_or(false)
get_flag(reply) == unwrap_or(IF reply.ok THEN FromRedisBool(reply.v) ELSE Err, FALSE)

\* Err(CircuitBreakerError::RedisError) / Err(RateLimitError::RedisError)
FtErr == [kind |-> "Err"]
\* no result: the call was dropped
FtCancelled == [kind |-> "cancelled"]

FtStored(d) == [count |-> StoredCount(d), flag |-> StoredFlag(d)]
NoFtCall == [op |-> "new", domain |-> "-", url |-> NoUrl, count |-> 0,
             before |-> [count |-> 0, flag |-> FALSE], reads |-> <<>>,
             ret |-> [kind |-> "-"]]

FtApply(st) == redis' = st.kv /\ redis_ttl' = st.ttl

FtReturn(call, ret) ==
    /\ ft_pc' = "idle"
    /\ ft_call' = [call EXCEPT !.ret = ret]

\* what record_failure's caller does with Ok(count): record_failure called
\* by itself returns it; handle_failure, l.202-207, hands off above the
\* threshold and else returns Ok(false)
FtRecorded(call) ==
    IF call.op = "record_failure" THEN FtReturn(call, [count |-> call.count])
    ELSE IF call.count > FAILURE_THRESHOLD
    THEN ft_pc' = "push" /\ ft_call' = call
    ELSE FtReturn(call, [handoff |-> FALSE])

\* record_failure, l.134: INCR, called by itself or from handle_failure
HfIncr(op, d, u, up) ==
    /\ ft_pc = "idle"
    /\ StoredCount(d) < MaxCount
    /\ Len(QueueOf(redis)) < MaxQueue
    /\ LET key   == failure_key(d)
           st    == RedisIncr(RedisNow, key)
           count == st.kv[key].v
           call  == [NoFtCall EXCEPT !.op = op, !.domain = d, !.url = u,
                                     !.before = FtStored(d)]
       IN  IF ~up
           THEN FtReturn(call, FtErr) /\ UNCHANGED <<redisVars, ft_over>>
           ELSE /\ FtApply(st)
                /\ ft_over' = IF op = "handle_failure" /\ count > FAILURE_THRESHOLD
                              THEN [ft_over EXCEPT ![u] = Min(@ + 1, MaxQueue + 1)]
                              ELSE ft_over
                /\ IF count = 1
                   THEN ft_pc' = "expire" /\ ft_call' = [call EXCEPT !.count = count]
                   ELSE IF count > FAILURE_THRESHOLD
                   THEN ft_pc' = "trip" /\ ft_call' = [call EXCEPT !.count = count]
                   ELSE FtRecorded([call EXCEPT !.count = count])

\* record_failure, l.137-139: EXPIRE after the first INCR
HfExpire(up) ==
    /\ ft_pc = "expire"
    /\ IF ~up
       THEN FtReturn(ft_call, FtErr) /\ UNCHANGED redisVars
       ELSE /\ FtApply(RedisExpire(RedisNow, failure_key(ft_call.domain), FAILURE_TTL_SECS))
            /\ FtRecorded(ft_call)
    /\ UNCHANGED ft_over

\* record_failure, l.144-146: trip_circuit above the threshold
HfTrip(up) ==
    /\ ft_pc = "trip"
    /\ IF ~up
       THEN FtReturn(ft_call, FtErr) /\ UNCHANGED redisVars
       ELSE /\ FtApply(trip_circuit(RedisNow, ft_call.domain))
            /\ FtRecorded(ft_call)
    /\ UNCHANGED ft_over

\* handle_failure, l.203-204: handoff_to_queue, then Ok(true)
HfPush(up) ==
    /\ ft_pc = "push"
    /\ IF ~up
       THEN FtReturn(ft_call, FtErr) /\ UNCHANGED redisVars
       ELSE /\ FtApply(handoff_to_queue(RedisNow, ft_call.url))
            /\ FtReturn(ft_call, [handoff |-> TRUE])
    /\ UNCHANGED ft_over

\* the future of the running call is dropped at the await it is at
HfCancel ==
    /\ ft_pc \in {"expire", "trip", "push"}
    /\ FtReturn(ft_call, FtCancelled)
    /\ UNCHANGED <<redisVars, ft_over>>

\* check, l.88-99: GET of the flag
ChkFlag(d, up) ==
    /\ ft_pc = "idle"
    /\ LET call == [NoFtCall EXCEPT !.op = "check", !.domain = d,
                                    !.before = FtStored(d), !.reads = <<up>>]
       IN  IF get_flag(Reply(up, redis[config_key(d)]))
           THEN FtReturn(call, CircuitCheckResult(Open, FAILURE_THRESHOLD + 1, TRUE))
           ELSE ft_pc' = "count" /\ ft_call' = call
    /\ UNCHANGED <<redisVars, ft_over>>

\* check, l.102-117: GET of the counter
ChkCount(up) ==
    /\ ft_pc = "count"
    /\ LET failure_count == get_count(Reply(up, redis[failure_key(ft_call.domain)])) IN
        FtReturn([ft_call EXCEPT !.reads = Append(@, up)],
                 CircuitCheckResult(IF failure_count > FAILURE_THRESHOLD THEN Open ELSE Closed,
                                    failure_count, FALSE))
    /\ UNCHANGED <<redisVars, ft_over>>

\* is_blacklisted, l.256-263: `redis.exists(&key).await?`
BlExists(d, up) ==
    /\ ft_pc = "idle"
    /\ LET reply == Reply(up, RedisExists(RedisNow, blacklist_key(d))) IN
        FtReturn([NoFtCall EXCEPT !.op = "is_blacklisted", !.domain = d, !.reads = <<up>>],
                 IF reply.ok THEN [listed |-> reply.v] ELSE FtErr)
    /\ UNCHANGED <<redisVars, ft_over>>

\* TimeStep seconds pass between two calls
FtTick ==
    /\ ft_pc = "idle"
    /\ \E d \in Domains : redis_ttl[failure_key(d)] # NoExpiry
    /\ FtApply(RedisElapse(RedisNow, TimeStep))
    /\ UNCHANGED <<ft_pc, ft_call, ft_over>>

(* ------------------------------------------------------------------------ *)
(* AIEnrichmentWorker (persistence/ai_worker.rs) over an                    *)
(* InMemoryRecordStore: one poll of worker_loop is one step                 *)

\* polls of worker_loop in a run
MaxPolls == 6
\* records in the store
MaxRecords == 2

DEFAULT_BATCH_SIZE  == 10
DEFAULT_MAX_RETRIES == 3

\* WorkerConfig::default()
WorkerConfigDefault ==
    [batch_size |-> DEFAULT_BATCH_SIZE, max_retries |-> DEFAULT_MAX_RETRIES,
     compute_embeddings |-> TRUE, compute_sentiment |-> TRUE]

\* a MultimodalRecord: embedding and sentiment_score are Some (TRUE) or None
Record(id, text, embedding, sentiment, is_deleted) ==
    [id |-> id, text_content |-> text, embedding |-> embedding,
     sentiment_score |-> sentiment, is_deleted |-> is_deleted]

Texts == {"", "good"}

\* MultimodalRecord::needs_enrichment
needs_enrichment(r) == ~r.embedding \/ ~r.sentiment_score

\* EnrichmentFilter::new(limit)
EnrichmentFilter(limit) == [limit |-> limit, include_deleted |-> FALSE]

\* InMemoryRecordStore::fetch_unenriched(filter): the batch
fetch_unenriched(records, filter) ==
    LET Wanted(r) == needs_enrichment(r) /\ (filter.include_deleted \/ ~r.is_deleted)
        unenriched == SelectSeq(records, Wanted)
    IN  SubSeq(unenriched, 1, Min(filter.limit, Len(unenriched)))

\* compute_embedding(text) and compute_sentiment(text) succeed on a text
\* that is not empty
compute_embedding_ok(text) == text # ""
compute_sentiment_ok(text) == text # ""

\* enrich_record(&mut record, &config): Ok or Err, and the record after it
enrich_record(record, config) ==
    IF config.compute_embeddings /\ ~record.embedding /\ ~compute_embedding_ok(record.text_content)
    THEN [ok |-> FALSE, record |-> record]
    ELSE LET r1 == IF config.compute_embeddings /\ ~record.embedding
                   THEN [record EXCEPT !.embedding = TRUE] ELSE record
         IN  IF config.compute_sentiment /\ ~r1.sentiment_score
             THEN IF compute_sentiment_ok(r1.text_content)
                  THEN [ok |-> TRUE, record |-> [r1 EXCEPT !.sentiment_score = TRUE]]
                  ELSE [ok |-> FALSE, record |-> r1]
             ELSE [ok |-> TRUE, record |-> r1]

\* InMemoryRecordStore::update_record(record): the store after it
update_record(records, record) ==
    [i \in 1..Len(records) |-> IF records[i].id = record.id THEN record ELSE records[i]]

\* the store's records, the counters and the attempts made per record
WorkerState(records, processed, errors, attempts) ==
    [records |-> records, processed |-> processed, errors |-> errors,
     attempts |-> attempts]

\* the `for mut record in batch.records` loop of worker_loop, l.171-190
RECURSIVE process_batch(_, _, _)
process_batch(batch, config, st) ==
    IF batch = <<>> THEN st
    ELSE LET record == Head(batch)
             e == enrich_record(record, config)
             attempts == [st.attempts EXCEPT ![record.id] = @ + 1]
         IN  process_batch(Tail(batch), config,
                 IF e.ok
                 THEN WorkerState(update_record(st.records, e.record),
                                  st.processed + 1, st.errors, attempts)
                 ELSE WorkerState(st.records, st.processed, st.errors + 1, attempts))

\* one tick of poll_interval in worker_loop, l.156-199
Poll ==
    /\ wk_running
    /\ wk_stats.polls < MaxPolls
    /\ LET batch == fetch_unenriched(wk_records, EnrichmentFilter(WorkerConfigDefault.batch_size))
           st == process_batch(batch, WorkerConfigDefault,
                               WorkerState(wk_records, wk_stats.processed,
                                           wk_stats.errors, wk_attempts))
       IN  /\ wk_records' = st.records
           /\ wk_attempts' = st.attempts
           /\ wk_stats' = [polls |-> wk_stats.polls + 1, processed |-> st.processed,
                           errors |-> st.errors]
    /\ UNCHANGED wk_running

\* stop(), or the shutdown signal: the loop ends
StopWorker ==
    /\ wk_running
    /\ wk_running' = FALSE
    /\ UNCHANGED <<wk_records, wk_stats, wk_attempts>>

----------------------------------------------------------------------------
(* Initial states and specifications *)

RedisIdle == redis = RedisInit.kv /\ redis_ttl = RedisInit.ttl

CBIdle ==
    /\ cb_last = CBCall("new", "-", NoUrl, [done |-> TRUE])
    /\ hf_streak = [d \in Domains |-> 0]

RLIdle ==
    /\ domain_limiters = [d \in Domains |-> NotRegistered]
    /\ rl_last = RLCall("new", "-", FALSE, "Ok", 0)
    /\ since_t2 = [d \in Domains |-> NeverT2]

PxIdle ==
    /\ t1_idx = 0
    /\ t2_idx = 0
    /\ px_last = [url |-> NoUrl, attempts |-> <<>>, result |-> FetchOk]

MemIdle ==
    /\ is_under_pressure = FALSE
    /\ ram_used = 0
    /\ ram_total = 0

NormIdle ==
    /\ href = <<>>
    /\ base_url = <<>>
    /\ norm_out = None
    /\ norm_again = None
    /\ norm_pc = "input"

ClientIdle == fc_last = [resp |-> NoResponse, ret |-> FcNone]

ConcIdle ==
    /\ cc_pc = [p \in Tasks |-> "idle"]
    /\ cc_local = [p \in Recorders |-> 0]
    /\ cc_incs = 0
    /\ cc_returned = <<>>
    /\ cc_checked = [prev |-> NoCheckYet, last |-> NoCheckYet]

RobotsIdle == rb_in = None /\ rb_out = RbNone

BucketIdle ==
    /\ bk_delay = DEFAULT_CRAWL_DELAY_MS
    /\ bk_now = 0
    /\ bk_tat = 0
    /\ bk_acq = [prev |-> NoAcquire, last |-> NoAcquire]

CursorIdle ==
    /\ gp_pc = [p \in GpTasks |-> "idle"]
    /\ gp_call = [p \in GpTasks |-> NoCall]
    /\ gp_lock = [t \in ProxyTiers |-> NoHolder]
    /\ gp_calls = [t \in ProxyTiers |-> 0]
    /\ gp_returned = {}

RenderIdle ==
    /\ sp_pc = "idle"
    /\ sp_browser = FALSE
    /\ sp_pages = {}
    /\ sp_page = NoPage
    /\ sp_ret = NoRender
    /\ sp_calls = 0

QueueIdle ==
    /\ hq_pc = [p \in HqTasks |-> "idle"]
    /\ hq_before = <<>>
    /\ hq_applied = <<>>
    /\ hq_completed = <<>>
    /\ hq_delivered = <<>>

DensityIdle == dn_doc = [article |-> FALSE, nodes |-> <<>>] /\ dn_out = DnNone

FingerprintIdle ==
    fp_new = FpBlank /\ fp_cached = FpBlank /\ fp_stored = <<>> /\ fp_out = FpNone

JarIdle ==
    /\ jar_pc = "idle"
    /\ jar_call = 0
    /\ jar_tier = Tier0Direct
    /\ jar_client = NoClient
    /\ jar_hops = 0
    /\ jar_sent = NoRequest
    /\ jar_stored = {}

AcquireIdle ==
    /\ aq_pc = [p \in AqTasks |-> "idle"]
    /\ aq_call = [p \in AqTasks |-> NoAqCall]
    /\ aq_map = NoLimiter
    /\ aq_made = 0

FaultIdle ==
    /\ ft_pc = "idle"
    /\ ft_call = NoFtCall
    /\ ft_over = [u \in Urls |-> 0]

WorkerIdle ==
    /\ wk_running = FALSE
    /\ wk_records = <<>>
    /\ wk_stats = [polls |-> 0, processed |-> 0, errors |-> 0]
    /\ wk_attempts = <<>>

\* the components a specification does not run stay as constructed
OthersIdle(x) ==
    /\ IF x = "client" THEN TRUE ELSE ClientIdle
    /\ IF x = "conc" THEN TRUE ELSE ConcIdle
    /\ IF x = "robots" THEN TRUE ELSE RobotsIdle
    /\ IF x = "bucket" THEN TRUE ELSE BucketIdle
    /\ IF x = "cursor" THEN TRUE ELSE CursorIdle
    /\ IF x = "render" THEN TRUE ELSE RenderIdle
    /\ IF x = "queue" THEN TRUE ELSE QueueIdle
    /\ IF x = "density" THEN TRUE ELSE DensityIdle
    /\ IF x = "fingerprint" THEN TRUE ELSE FingerprintIdle
    /\ IF x = "jar" THEN TRUE ELSE JarIdle
    /\ IF x = "acquire" THEN TRUE ELSE AcquireIdle
    /\ IF x = "fault" THEN TRUE ELSE FaultIdle
    /\ IF x = "worker" THEN TRUE ELSE WorkerIdle
OthersUnchanged(x) ==
    /\ IF x = "client" THEN TRUE ELSE UNCHANGED clientVars
    /\ IF x = "conc" THEN TRUE ELSE UNCHANGED concVars
    /\ IF x = "robots" THEN TRUE ELSE UNCHANGED robotsVars
    /\ IF x = "bucket" THEN TRUE ELSE UNCHANGED bucketVars
    /\ IF x = "cursor" THEN TRUE ELSE UNCHANGED cursorVars
    /\ IF x = "render" THEN TRUE ELSE UNCHANGED renderVars
    /\ IF x = "queue" THEN TRUE ELSE UNCHANGED queueVars
    /\ IF x = "density" THEN TRUE ELSE UNCHANGED densityVars
    /\ IF x = "fingerprint" THEN TRUE ELSE UNCHANGED fingerprintVars
    /\ IF x = "jar" THEN TRUE ELSE UNCHANGED jarVars
    /\ IF x = "acquire" THEN TRUE ELSE UNCHANGED acquireVars
    /\ IF x = "fault" THEN TRUE ELSE UNCHANGED faultVars
    /\ IF x = "worker" THEN TRUE ELSE UNCHANGED workerVars

MoreIdle == OthersIdle("core")

CoreIdle ==
    /\ RedisIdle
    /\ cb_redis = TRUE /\ CBIdle
    /\ rl_redis = TRUE /\ RLIdle
    /\ tier1_proxies = <<>> /\ tier2_proxies = <<>> /\ PxIdle
    /\ MemIdle
    /\ NormIdle

\* CircuitBreaker::new(redis_url)
InitCB ==
    /\ RedisIdle
    /\ cb_redis \in BOOLEAN
    /\ CBIdle
    /\ rl_redis = TRUE /\ RLIdle
    /\ tier1_proxies = <<>> /\ tier2_proxies = <<>> /\ PxIdle
    /\ MemIdle
    /\ NormIdle
    /\ MoreIdle

NextCB ==
    \/ \E d \in Domains : Check(d)
    \/ \E d \in Domains : ShouldBypassLocal(d)
    \/ \E d \in Domains : RecordFailure(d)
    \/ \E u \in Urls : HandoffToQueue(u)
    \/ \E d \in Domains, u \in Urls : HandleFailure(d, u)
    \/ \E d \in Domains : Reset(d)
    \/ TickCB

StepCB == NextCB /\ UNCHANGED <<rlVars, pxVars, memVars, normVars>> /\ UNCHANGED moreVars

SpecCB == InitCB /\ [][StepCB]_vars

\* RateLimitManager::new(redis_url, user_agent)
InitRL ==
    /\ RedisIdle
    /\ cb_redis = TRUE /\ CBIdle
    /\ rl_redis \in BOOLEAN
    /\ RLIdle
    /\ tier1_proxies = <<>> /\ tier2_proxies = <<>> /\ PxIdle
    /\ MemIdle
    /\ NormIdle
    /\ MoreIdle

NextRL ==
    \/ \E d \in Domains, r \in CrawlDelays \cup {NoRobots} : RegisterDomain(d, r)
    \/ \E d \in Domains : IsBlacklisted(d)
    \/ \E d \in Domains : Record429(d)
    \/ \E d \in Domains : RecordTier2Failure(d)
    \/ \E d \in Domains, slow \in BOOLEAN : Acquire(d, slow)
    \/ TickRL

StepRL == NextRL /\ UNCHANGED <<cbVars, pxVars, memVars, normVars>> /\ UNCHANGED moreVars

SpecRL == InitRL /\ [][StepRL]_vars

\* ProxyManager::new(tier1, tier2), next to a RateLimitManager on Redis
InitProxy ==
    /\ RedisIdle
    /\ cb_redis = TRUE /\ CBIdle
    /\ rl_redis = TRUE /\ RLIdle
    /\ tier1_proxies \in Pools1
    /\ tier2_proxies \in Pools2
    /\ PxIdle
    /\ MemIdle
    /\ NormIdle
    /\ MoreIdle

NextProxy ==
    \E u \in Urls, o0 \in Outcomes, o1 \in Outcomes, o2 \in Outcomes :
        FetchWithEscalation(u, o0, o1, o2)

StepProxy == NextProxy /\ UNCHANGED <<redisVars, cbVars, rlVars, memVars, normVars>> /\ UNCHANGED moreVars

SpecProxy == InitProxy /\ [][StepProxy]_vars

\* MemoryMonitor::new()
InitMem ==
    /\ RedisIdle
    /\ cb_redis = TRUE /\ CBIdle
    /\ rl_redis = TRUE /\ RLIdle
    /\ tier1_proxies = <<>> /\ tier2_proxies = <<>> /\ PxIdle
    /\ MemIdle
    /\ NormIdle
    /\ MoreIdle

NextMem ==
    \E total \in {0, MaxMem} : \E used \in 0..total : MonitorTick(used, total)

StepMem == NextMem /\ UNCHANGED <<redisVars, cbVars, rlVars, pxVars, normVars>> /\ UNCHANGED moreVars

SpecMem == InitMem /\ [][StepMem]_vars

\* One process holding a CircuitBreaker, a RateLimitManager (both on the
\* same Redis), a MemoryMonitor and a ProxyManager, with the calls the
\* repository makes on them for one domain; no key expires meanwhile
EngineDomains == {"d.com"}
EngineUrls == {"https://d.com/x"}
EngineSamples == {0, (MaxMem * 7) \div 8, (MaxMem * 19) \div 20}
EngineOutcomes0 == {FetchOk, HardBan403, EmptyResponse}
EngineOutcomes1 == {SoftBan, EmptyResponse}
EngineOutcomes2 == {FetchOk, Reqwest}

InitEngine ==
    /\ RedisIdle
    /\ cb_redis = TRUE /\ CBIdle
    /\ rl_redis = TRUE /\ RLIdle
    /\ tier1_proxies = <<"dc1">> /\ tier2_proxies = <<"res1">> /\ PxIdle
    /\ MemIdle
    /\ NormIdle
    /\ MoreIdle

EngineFetch(u) ==
    /\ \E o0 \in EngineOutcomes0, o1 \in EngineOutcomes1, o2 \in EngineOutcomes2 :
           FetchWithEscalation(u, o0, o1, o2)
    /\ UNCHANGED <<redisVars, cbVars, rlVars, memVars>>

EngineAcquire(d, is_slow_path) ==
    /\ Acquire(d, is_slow_path)
    /\ UNCHANGED <<cbVars, pxVars, memVars>>

NextEngine ==
    \/ (\E d \in EngineDomains : RecordFailure(d))
            /\ UNCHANGED <<rlVars, pxVars, memVars>>
    \/ (\E d \in EngineDomains : Reset(d))
            /\ UNCHANGED <<rlVars, pxVars, memVars>>
    \/ (\E d \in EngineDomains : RecordTier2Failure(d))
            /\ UNCHANGED <<cbVars, pxVars, memVars>>
    \/ \E d \in EngineDomains, slow \in BOOLEAN : EngineAcquire(d, slow)
    \/ (\E used \in EngineSamples : MonitorTick(used, MaxMem))
            /\ UNCHANGED <<redisVars, cbVars, rlVars, pxVars>>
    \/ \E u \in EngineUrls : EngineFetch(u)

StepEngine == NextEngine /\ UNCHANGED normVars /\ UNCHANGED moreVars

SpecEngine == InitEngine /\ [][StepEngine]_vars

\* FastClient::new(proxy_url)
InitClient ==
    /\ CoreIdle
    /\ OthersIdle("client")
    /\ fc_last \in [resp : Responses, ret : {FcNone}]

NextClient == Fetch

StepClient == NextClient /\ UNCHANGED coreVars /\ OthersUnchanged("client")

SpecClient == InitClient /\ [][StepClient]_vars

\* one CircuitBreaker on Redis shared by the tasks
InitConc == CoreIdle /\ OthersIdle("conc") /\ ConcIdle

NextConc ==
    \/ \E p \in Recorders : RfIncr(p)
    \/ \E p \in Recorders : RfExpire(p)
    \/ \E p \in Recorders : RfTrip(p)
    \/ \E p \in Checkers : CkFlag(p)
    \/ \E p \in Checkers : CkCount(p)

StepConc ==
    /\ NextConc
    /\ UNCHANGED <<cbVars, rlVars, pxVars, memVars, normVars>>
    /\ OthersUnchanged("conc")

SpecConc == InitConc /\ [][StepConc]_vars

\* RobotstxtParser::new(user_agent) and the robots.txt a site serves
InitRobots ==
    /\ CoreIdle
    /\ OthersIdle("robots")
    /\ rb_in \in {None} \cup {Some(t) : t \in RobotsTexts}
    /\ rb_out = RbNone

NextRobots == \E overflow_checks \in BOOLEAN : ParseCrawlDelay(overflow_checks)

StepRobots == NextRobots /\ UNCHANGED coreVars /\ OthersUnchanged("robots")

SpecRobots == InitRobots /\ [][StepRobots]_vars

\* register_domain for one domain on a manager without blacklist entries
InitBucket ==
    /\ CoreIdle
    /\ OthersIdle("bucket")
    /\ bk_delay \in BucketDelays
    /\ bk_now = 0
    /\ bk_tat = 0
    /\ bk_acq = [prev |-> NoAcquire, last |-> NoAcquire]

NextBucket ==
    \/ \E is_slow_path \in BOOLEAN : AcquireTimed(is_slow_path)
    \/ TickBucket

StepBucket == NextBucket /\ UNCHANGED coreVars /\ OthersUnchanged("bucket")

SpecBucket == InitBucket /\ [][StepBucket]_vars

\* ProxyManager::new(tier1, tier2) shared by the tasks
InitCursor ==
    /\ RedisIdle
    /\ cb_redis = TRUE /\ CBIdle
    /\ rl_redis = TRUE /\ RLIdle
    /\ tier1_proxies \in Pools1
    /\ tier2_proxies \in Pools2
    /\ PxIdle
    /\ MemIdle
    /\ NormIdle
    /\ OthersIdle("cursor")
    /\ CursorIdle

NextCursor ==
    \/ \E p \in GpTasks, tier \in ProxyTiers : GpEmpty(p, tier)
    \/ \E p \in GpTasks, tier \in ProxyTiers : GpLock(p, tier)
    \/ \E p \in GpTasks : GpRead(p)
    \/ \E p \in GpTasks : GpAdvance(p)
    \/ \E p \in GpTasks : GpReturn(p)

StepCursor ==
    /\ NextCursor
    /\ UNCHANGED <<redisVars, cbVars, rlVars, memVars, normVars>>
    /\ UNCHANGED <<tier1_proxies, tier2_proxies, px_last>>
    /\ OthersUnchanged("cursor")

SpecCursor == InitCursor /\ [][StepCursor]_vars

\* SlowPathRenderer::new()
InitRender ==
    /\ CoreIdle
    /\ OthersIdle("render")
    /\ RenderIdle

NextRender ==
    \/ \E launched \in BOOLEAN : EnsureBrowser(launched)
    \/ \E ok \in BOOLEAN : NewPage(ok)
    \/ \E ok \in BOOLEAN : EvaluateStealth(ok)
    \/ \E ok \in BOOLEAN : EvaluateConsoleCapture(ok)
    \/ \E navigate_result \in GotoOutcomes : Goto(navigate_result)
    \/ \E ok \in BOOLEAN : PageUrl(ok)
    \/ \E ok \in BOOLEAN : PageContent(ok)
    \/ ExtractConsoleLogs
    \/ PageClose
    \/ Shutdown

StepRender == NextRender /\ UNCHANGED coreVars /\ OthersUnchanged("render")

SpecRender == InitRender /\ [][StepRender]_vars

\* CircuitBreaker::new(redis_url) shared by the tasks
InitQueue ==
    /\ RedisIdle
    /\ cb_redis \in BOOLEAN /\ CBIdle
    /\ rl_redis = TRUE /\ RLIdle
    /\ tier1_proxies = <<>> /\ tier2_proxies = <<>> /\ PxIdle
    /\ MemIdle
    /\ NormIdle
    /\ OthersIdle("queue")
    /\ QueueIdle

NextQueue ==
    \/ \E p \in HqTasks, u \in HqUrls : HqPush(p, u)
    \/ \E p \in HqTasks : HqReturn(p)
    \/ \E k \in HqConsumers : Blpop(k)

StepQueue ==
    /\ NextQueue
    /\ UNCHANGED <<cbVars, rlVars, pxVars, memVars, normVars>>
    /\ OthersUnchanged("queue")

SpecQueue == InitQueue /\ [][StepQueue]_vars

\* a document handed to DensityMetrics::compute
InitDensity ==
    /\ CoreIdle
    /\ OthersIdle("density")
    /\ dn_doc \in DensityDocs
    /\ dn_out = DnNone

NextDensity == Compute

StepDensity == NextDensity /\ UNCHANGED coreVars /\ OthersUnchanged("density")

SpecDensity == InitDensity /\ [][StepDensity]_vars

\* a page with a cached fingerprint, fetched again
InitFingerprint ==
    /\ CoreIdle
    /\ OthersIdle("fingerprint")
    /\ fp_cached \in FpCachedDocs
    /\ fp_stored = compute_head_fingerprint(RenderHtml(fp_cached))
    /\ fp_new \in FpDocs
    /\ fp_out = FpNone

NextFingerprint == CheckChanged

StepFingerprint ==
    NextFingerprint /\ UNCHANGED coreVars /\ OthersUnchanged("fingerprint")

SpecFingerprint == InitFingerprint /\ [][StepFingerprint]_vars

\* ProxyManager::new(tier1, tier2), no fetch_with_escalation call yet
InitJar ==
    /\ RedisIdle
    /\ cb_redis = TRUE /\ CBIdle
    /\ rl_redis = TRUE /\ RLIdle
    /\ tier1_proxies \in Pools1
    /\ tier2_proxies \in Pools2
    /\ PxIdle
    /\ MemIdle
    /\ NormIdle
    /\ OthersIdle("jar")
    /\ JarIdle

NextJar ==
    \/ JarFetch
    \/ \E set_cookie \in BOOLEAN : JarRedirect(set_cookie)
    \/ \E set_cookie \in BOOLEAN, outcome \in JarOutcomes : JarAnswer(set_cookie, outcome)

StepJar ==
    /\ NextJar
    /\ UNCHANGED <<redisVars, cbVars, rlVars, memVars, normVars>>
    /\ OthersUnchanged("jar")

SpecJar == InitJar /\ [][StepJar]_vars

\* a RateLimitManager with or without Redis, its tasks idle
InitAcquire ==
    /\ RedisIdle
    /\ cb_redis = TRUE /\ CBIdle
    /\ rl_redis \in BOOLEAN
    /\ RLIdle
    /\ tier1_proxies = <<>> /\ tier2_proxies = <<>> /\ PxIdle
    /\ MemIdle
    /\ NormIdle
    /\ OthersIdle("acquire")
    /\ AcquireIdle

NextAcquire ==
    \/ \E p \in AqTasks, slow \in BOOLEAN : AcqIsBlacklisted(p, slow) /\ UNCHANGED <<redisVars, rlVars>>
    \/ \E p \in AqTasks : AcqGetLimiter(p) /\ UNCHANGED <<redisVars, rlVars>>
    \/ \E p \in AqTasks : AcqRegisterDefault(p) /\ UNCHANGED <<redisVars, rlVars>>
    \/ \E p \in AqTasks : AcqWaitLocal(p) /\ UNCHANGED <<redisVars, rlVars>>
    \/ \E p \in AqTasks : AcqSleep(p) /\ UNCHANGED <<redisVars, rlVars>>
    \/ \E robots \in {NoRobots, 0, 500} : AcqRegisterDomain(robots) /\ UNCHANGED <<redisVars, rlVars>>
    \/ RecordTier2Failure(SharedDomain) /\ UNCHANGED acquireVars

StepAcquire ==
    /\ NextAcquire
    /\ UNCHANGED <<cbVars, pxVars, memVars, normVars>>
    /\ OthersUnchanged("acquire")

SpecAcquire == InitAcquire /\ [][StepAcquire]_vars

InitFault == CoreIdle /\ OthersIdle("fault") /\ FaultIdle

NextFault ==
    \/ \E up \in BOOLEAN : HfIncr("record_failure", SharedDomain, NoUrl, up)
    \/ \E up \in BOOLEAN : HfIncr("handle_failure", SharedDomain, SharedUrl, up)
    \/ \E up \in BOOLEAN : HfExpire(up)
    \/ \E up \in BOOLEAN : HfTrip(up)
    \/ \E up \in BOOLEAN : HfPush(up)
    \/ HfCancel
    \/ \E d \in Domains, up \in BOOLEAN : ChkFlag(d, up)
    \/ \E up \in BOOLEAN : ChkCount(up)
    \/ \E d \in Domains, up \in BOOLEAN : BlExists(d, up)
    \/ FtTick

StepFault ==
    /\ NextFault
    /\ UNCHANGED <<cbVars, rlVars, pxVars, memVars, normVars>>
    /\ OthersUnchanged("fault")

SpecFault == InitFault /\ [][StepFault]_vars

\* the stores of up to MaxRecords records
Stores ==
    UNION {[1..n -> [text : Texts, embedding : BOOLEAN, sentiment : BOOLEAN,
                     is_deleted : BOOLEAN]] : n \in 1..MaxRecords}

\* start(provider, updater) on a store that holds some records
InitWorker ==
    /\ CoreIdle
    /\ OthersIdle("worker")
    /\ wk_running = TRUE
    /\ \E store \in Stores :
           wk_records = [i \in 1..Len(store) |->
                            Record(i, store[i].text, store[i].embedding,
                                   store[i].sentiment, store[i].is_deleted)]
    /\ wk_stats = [polls |-> 0, processed |-> 0, errors |-> 0]
    /\ wk_attempts = [i \in 1..Len(wk_records) |-> 0]

NextWorker == Poll \/ StopWorker

StepWorker == NextWorker /\ UNCHANGED coreVars /\ OthersUnchanged("worker")

SpecWorker == InitWorker /\ [][StepWorker]_vars

----------------------------------------------------------------------------
(* Properties of the circuit breaker, checked under SpecCB *)

FlagSet(kv, d) == FromRedisBool(kv[config_key(d)]) = Ok(TRUE)

\* C1: with Redis configured and starting from no stored state for a
\* domain, the n-th consecutive handle_failure(domain, url) returns false
\* for n = 1, 2, 3 and true for n = 4; the call that returns true has
\* written requires_full_browser = true and appended url to the queue, a
\* call that returns false has written no flag and enqueued nothing.
C1_FourthFailureHandsOff ==
    [][\A d \in Domains, n \in 1..4 :
          ( /\ cb_redis
            /\ hf_streak[d] = n - 1
            /\ hf_streak'[d] = n
            /\ cb_last'.op = "handle_failure"
            /\ cb_last'.domain = d )
          => /\ cb_last'.ret.handoff = (n = 4)
             /\ IF cb_last'.ret.handoff
                THEN /\ FlagSet(redis', d)
                     /\ QueueOf(redis') = Append(QueueOf(redis), cb_last'.url)
                ELSE /\ redis'[config_key(d)] = RNil
                     /\ QueueOf(redis') = QueueOf(redis)]_vars

C1_Witness ==
    /\ cb_redis
    /\ cb_last.op = "handle_failure"
    /\ hf_streak[cb_last.domain] = 4
    /\ cb_last.ret.handoff
    /\ FlagSet(redis, cb_last.domain)
    /\ Len(QueueOf(redis)) = 1

----------------------------------------------------------------------------
(* Properties of the rate limiter, checked under SpecRL *)

WithinBlacklistWindow(d) == since_t2[d] # NeverT2 /\ since_t2[d] < 86400

\* C4 as stated: after record_tier2_failure(domain) returned Ok, every
\* acquire(domain, is_slow_path) that starts within the following 86400 s
\* returns Err(DomainBlacklisted), for both values of is_slow_path.
C4_AcquireBlockedAfterTier2Failure ==
    (rl_last.op = "acquire" /\ WithinBlacklistWindow(rl_last.domain))
    => rl_last.ret = "DomainBlacklisted"

\* C4 amended: when the manager has a Redis connection, every acquire that
\* starts within 86400 s after record_tier2_failure(domain) returned Ok
\* returns Err(DomainBlacklisted), for both values of is_slow_path, and
\* acquire returns Ok only when the blacklist key is absent.
C4_AcquireBlockedWithRedis ==
    (rl_redis /\ rl_last.op = "acquire")
    => /\ WithinBlacklistWindow(rl_last.domain) => rl_last.ret = "DomainBlacklisted"
       /\ rl_last.ret = "Ok" => redis[blacklist_key(rl_last.domain)] = RNil

C4_Witness ==
    /\ rl_redis
    /\ rl_last.op = "acquire"
    /\ rl_last.is_slow_path
    /\ since_t2[rl_last.domain] > 0
    /\ WithinBlacklistWindow(rl_last.domain)
    /\ rl_last.ret = "DomainBlacklisted"

----------------------------------------------------------------------------
(* Properties of the proxy ladder, checked under SpecProxy *)

EscalationWorthy(o) == o.kind \in {"SoftBan", "HardBan", "EmptyResponse"}

\* C5: fetch_with_escalation attempts the tiers in the order Direct,
\* Datacenter, Residential, each at most once; tier k+1 is attempted if and
\* only if the tier-k attempt returned SoftBan, HardBan or EmptyResponse;
\* an Ok or any other error at tier 0 or 1 ends the call with that result.
C5_EscalationOrder ==
    px_last.url # NoUrl
    => LET a == px_last.attempts IN
       /\ Len(a) \in 1..3
       /\ \A i \in 1..Len(a) : a[i].tier = i - 1
       /\ \A k \in 1..2 : (Len(a) >= k + 1) <=> (Len(a) >= k /\ EscalationWorthy(a[k].outcome))
       /\ px_last.result = a[Len(a)].outcome

C5_Witness ==
    /\ Len(px_last.attempts) = 2
    /\ px_last.attempts[1].outcome = EmptyResponse
    /\ px_last.attempts[2].outcome = Reqwest
    /\ px_last.result = Reqwest

\* C6: whenever the Tier-2 (Residential) attempt of an escalation fails,
\* record_tier2_failure(domain) has been invoked for the URL's domain: the
\* blacklist key of the domain exists with TTL 86400 s when the error is
\* returned.
C6_Tier2FailureBlacklists ==
    ( /\ Len(px_last.attempts) = 3
      /\ px_last.attempts[3].tier = Tier2Residential
      /\ px_last.attempts[3].outcome.kind # "Ok" )
    => /\ redis[blacklist_key(UrlDomain(px_last.url))] # RNil
       /\ redis_ttl[blacklist_key(UrlDomain(px_last.url))] = BLACKLIST_TTL_SECS

----------------------------------------------------------------------------
(* Properties of the memory monitor, checked under SpecMem *)

SampleAbove(used, total, pct) == total # 0 /\ used * 100 > pct * total
SampleBelow(used, total, pct) == total = 0 \/ used * 100 < pct * total

\* what C7 says of one monitor tick
C7_TickRule ==
    /\ (~is_under_pressure /\ is_under_pressure')
          => SampleAbove(ram_used', ram_total', 90)
    /\ (is_under_pressure /\ ~is_under_pressure')
          => SampleBelow(ram_used', ram_total', 85)
    /\ (~SampleAbove(ram_used', ram_total', 90) /\ ~SampleBelow(ram_used', ram_total', 85))
          => is_under_pressure' = is_under_pressure

\* C7: the pressure flag starts false; a monitor tick changes it from
\* false to true only if used% > 90 and from true to false only if
\* used% < 85; a tick whose sample lies in [85, 90] leaves it unchanged.
C7_Hysteresis == is_under_pressure = FALSE /\ [][C7_TickRule]_vars

C7_Witness ==
    /\ is_under_pressure
    /\ ram_total # 0
    /\ ram_used * 100 = 90 * ram_total

InitNorm ==
    /\ RedisIdle
    /\ cb_redis = TRUE /\ CBIdle
    /\ rl_redis = TRUE /\ RLIdle
    /\ tier1_proxies = <<>> /\ tier2_proxies = <<>> /\ PxIdle
    /\ MemIdle
    /\ MoreIdle
    /\ href \in Hrefs
    /\ base_url \in Bases
    /\ norm_out = None
    /\ norm_again = None
    /\ norm_pc = "input"

NextNorm ==
    \/ Normalize
    \/ NormalizeAgain

StepNorm == NextNorm /\ UNCHANGED <<redisVars, cbVars, rlVars, pxVars, memVars>> /\ UNCHANGED moreVars

SpecNorm == InitNorm /\ [][StepNorm]_vars

----------------------------------------------------------------------------
(* Properties of normalize_url, checked under SpecNorm *)

TrackingKeys ==
    { <<"u","t","m","_","s","o","u","r","c","e">>,
      <<"u","t","m","_","m","e","d","i","u","m">>,
      <<"u","t","m","_","c","a","m","p","a","i","g","n">>,
      <<"u","t","m","_","t","e","r","m">>,
      <<"u","t","m","_","c","o","n","t","e","n","t">>,
      <<"g","c","l","i","d">>, <<"f","b","c","l","i","d">>, <<"r","e","f">>,
      <<"y","c","l","i","d">>, <<"_","g","a">> }

UpperLetters == <<"A","B","C","D","E","F","G","H","I","J","K","L","M",
                  "N","O","P","Q","R","S","T","U","V","W","X","Y","Z">>
LowerLetters == <<"a","b","c","d","e","f","g","h","i","j","k","l","m",
                  "n","o","p","q","r","s","t","u","v","w","x","y","z">>
AsciiLower(s) ==
    [i \in 1..Len(s) |->
        IF \E j \in 1..26 : UpperLetters[j] = s[i]
        THEN LowerLetters[CHOOSE j \in 1..26 : UpperLetters[j] = s[i]]
        ELSE s[i]]

\* the pairs of a query text as written: key and value bytes of every
\* non-empty segment, undecoded
RECURSIVE RawSegments(_)
RawSegments(segs) ==
    IF segs = <<>> THEN <<>>
    ELSE LET seg == Head(segs)
             i   == IndexOf(seg, "=")
         IN  (IF seg = <<>> THEN <<>>
              ELSE << [k |-> IF i = 0 THEN seg ELSE SubSeq(seg, 1, i - 1),
                       v |-> IF i = 0 THEN <<>> ELSE SubSeq(seg, i + 1, Len(seg))] >>)
             \o RawSegments(Tail(segs))
RawPairs(query) == IF query.some THEN RawSegments(Split(query.v, "&")) ELSE <<>>

\* the query of the URL that href and base_url denote, before normalization
InputQuery == url_join(url_parse(base_url), href).query
\* the query component of the returned string
OutputQuery == split_reference(norm_out.v).query

IsTracking(p) == AsciiLower(form_decode(p.k)) \in TrackingKeys
NotTracking(p) == ~IsTracking(p)

Normalized == norm_pc # "input" /\ norm_out.some

\* C8: normalize_url is idempotent: when c = normalize_url(href, base) is
\* Some, normalize_url(c, base) is Some(c).
C8_Idempotent ==
    norm_pc = "twice" => norm_again = Some(norm_out.v)

C8_Witness ==
    /\ norm_pc = "twice"
    /\ norm_again.some
    /\ norm_out.v # href
    /\ \E i \in 1..Len(norm_out.v) : norm_out.v[i] = "%"
    /\ Len(RawPairs(OutputQuery)) = 2

\* C9: whatever the order and letter case of the input keys, the output
\* has no query pair whose ASCII-lowercased key is a tracking key, and when
\* every input pair is dropped the output has no query component (no '?').
C9_TrackingKeysAbsent ==
    Normalized
    => /\ \A i \in 1..Len(RawPairs(OutputQuery)) :
             /\ AsciiLower(RawPairs(OutputQuery)[i].k) \notin TrackingKeys
             /\ NotTracking(RawPairs(OutputQuery)[i])
       /\ (\A i \in 1..Len(RawPairs(InputQuery)) : IsTracking(RawPairs(InputQuery)[i]))
             => \A i \in 1..Len(norm_out.v) : norm_out.v[i] # "?"

C9_Witness ==
    /\ Normalized
    /\ Len(RawPairs(InputQuery)) = 2
    /\ RawPairs(InputQuery)[1].k = <<"a">>
    /\ RawPairs(InputQuery)[2].k = <<"U","T","M","_","S","o","u","r","c","e">>
    /\ Len(RawPairs(OutputQuery)) = 1
    /\ RawPairs(OutputQuery)[1].k = <<"a">>

\* the pairs sorted by key in byte order, pairs of one key in input order
RECURSIVE SortByKey(_)
SortByKey(pairs) ==
    IF pairs = <<>> THEN <<>>
    ELSE LET rest == SortByKey(SubSeq(pairs, 1, Len(pairs) - 1))
             p    == pairs[Len(pairs)]
             n    == Cardinality({i \in 1..Len(rest) : ~StrLess(p.k, rest[i].k)})
         IN  SubSeq(rest, 1, n) \o <<p>> \o SubSeq(rest, n + 1, Len(rest))

\* C10: the query pairs emitted by normalize_url are exactly the input
\* pairs whose key is not a tracking key, every one kept (also pairs that
\* share a key), each with its original key and value bytes, ordered by key
\* in byte order.
C10_KeptPairsVerbatim ==
    Normalized
    => RawPairs(OutputQuery) = SortByKey(SelectSeq(RawPairs(InputQuery), NotTracking))

----------------------------------------------------------------------------
(* Properties of FastClient::fetch, checked under SpecClient *)

\* some alternative of the title pattern occurs in the body, ignoring case
HasTitlePhrase(body) ==
    LET folded == AsciiLower(body) IN
    \E k \in 1..Len(ban_title_regex) : \E i \in 1..Len(body) :
        /\ i + Len(ban_title_regex[k]) - 1 <= Len(body)
        /\ SubSeq(folded, i, i + Len(ban_title_regex[k]) - 1)
             = AsciiLower(ban_title_regex[k])
\* some literal signature occurs in the body
HasSignature(body) ==
    \E k \in 1..Len(signatures) : \E i \in 1..Len(body) :
        /\ i + Len(signatures[k]) - 1 <= Len(body)
        /\ SubSeq(body, i, i + Len(signatures[k]) - 1) = signatures[k]

\* the result the ordered rules give a received response
ClassifiedInOrder(resp, r) ==
    IF resp.status \in {403, 429} THEN r = FcHardBan(resp.status)
    ELSE IF resp.status \notin 200..299 THEN r.kind = "Reqwest"
    ELSE IF Len(resp.body) < 500 THEN r = FcEmptyResponse(Len(resp.body))
    ELSE IF HasTitlePhrase(resp.body)
    THEN r.kind = "SoftBan" /\ StartsWith(r.text, TitleTrigger)
    ELSE IF HasSignature(resp.body)
    THEN r.kind = "SoftBan" /\ StartsWith(r.text, BodyTrigger)
    ELSE r = FcOk(resp.body)

\* C11: fetch classifies every received response by the first matching rule
\* of: 403/429 -> HardBan(status); other non-2xx -> transport error; body
\* under 500 bytes -> EmptyResponse(len); title phrase (any case) ->
\* SoftBan("Title Trigger: ..."); literal signature -> SoftBan("Body
\* Trigger: ..."); otherwise Ok(body).
C11_ClassifiedByFirstRule ==
    (fc_last.resp.io = "ok" /\ fc_last.ret # FcNone)
        => ClassifiedInOrder(fc_last.resp, fc_last.ret)

----------------------------------------------------------------------------
(* Further properties of the rate limiter, checked under SpecRL *)

\* the back-off key record_429 writes for the domain is present
BackoffPresent(d) == redis[bucket_key(d)] # RNil

\* C12: while the back-off key written by record_429(domain) is present, no
\* acquire for that domain returns Ok.
C12_AcquireObservesBackoff ==
    (rl_last.op = "acquire" /\ BackoffPresent(rl_last.domain))
    => rl_last.ret # "Ok"

----------------------------------------------------------------------------
(* Properties of concurrent circuit breaker calls, checked under SpecConc *)

\* the INCR of a record_failure call returns the number of increments
\* applied so far
IncrCountsIncrements ==
    \A p \in Recorders :
        (cc_incs' = cc_incs + 1 /\ cc_local'[p] # cc_local[p]) => cc_local'[p] = cc_incs'
\* no two record_failure calls returned the same count
ReturnedDistinct ==
    \A i \in 1..Len(cc_returned) : \A j \in 1..Len(cc_returned) :
        i # j => cc_returned[i] # cc_returned[j]
\* a check call does not return less than the check call before it
ChecksMonotonic ==
    cc_checked.prev # NoCheckYet => cc_checked.last >= cc_checked.prev

\* C13: under any interleaving of record_failure and check calls on one
\* domain (no expiry, no reset), the counts record_failure returns are
\* pairwise distinct, each equals the number of increments applied so far,
\* and the failure_count of successive check calls never decreases.
C13_MonotonicUnderInterleaving ==
    [][IncrCountsIncrements /\ ReturnedDistinct' /\ ChecksMonotonic']_vars

----------------------------------------------------------------------------
(* Further properties of the circuit breaker, checked under SpecCB *)

\* the step is a call that ran record_failure for domain d on Redis
RecordedFailure(d) ==
    /\ cb_redis
    /\ cb_last'.op \in {"record_failure", "handle_failure"}
    /\ cb_last'.domain = d

\* C14: the failure counter expires 3600 s after the most recent
\* record_failure for the domain: every record_failure leaves the counter
\* with 3600 s to live, so failures less than 3600 s apart keep it alive.
C14_CounterTtlFromLastFailure ==
    [][\A d \in Domains :
          RecordedFailure(d) => redis_ttl'[failure_key(d)] = FAILURE_TTL_SECS]_vars

----------------------------------------------------------------------------
(* Properties of the robots.txt Crawl-delay extraction, checked under      *)
(* SpecRobots                                                              *)

\* the lines of the robots.txt handed in, trimmed
RbLines ==
    IF rb_in.some THEN [i \in 1..Len(lines(rb_in.v)) |-> trim(lines(rb_in.v)[i])]
    ELSE <<>>
IsAgentLine(l) == StartsWith(AsciiLower(l), UserAgentDirective)
IsDelayLine(l) == StartsWith(AsciiLower(l), CrawlDelayDirective) /\ line_delay(l).some
\* the agent a User-agent line declares
DeclaredAgent(l) == trim(SubSeq(l, Len(UserAgentDirective) + 1, Len(l)))
IsWildcard(l) == DeclaredAgent(l) = <<"*">>
\* the declared agent is a substring of the configured UA, case folded
NamesOurAgent(l) ==
    LET a  == AsciiLower(DeclaredAgent(l))
        ua == AsciiLower(user_agent)
    IN  \E i \in 1..(Len(ua) - Len(a) + 1) : SubSeq(ua, i, i + Len(a) - 1) = a
\* the User-agent line that opens the block line i lies in (0: none)
BlockOf(i) ==
    IF \E j \in 1..(i - 1) : IsAgentLine(RbLines[j])
    THEN CHOOSE j \in 1..(i - 1) :
            /\ IsAgentLine(RbLines[j])
            /\ \A k \in (j + 1)..(i - 1) : ~IsAgentLine(RbLines[k])
    ELSE 0
InMatchingBlock(i) ==
    BlockOf(i) # 0
    /\ (IsWildcard(RbLines[BlockOf(i)]) \/ NamesOurAgent(RbLines[BlockOf(i)]))
\* the Crawl-delay lines that lie in matching blocks
MatchingDelayLines ==
    {i \in 1..Len(RbLines) : IsDelayLine(RbLines[i]) /\ InMatchingBlock(i)}
\* 1000 x the seconds line i declares
DeclaredMs(i) == line_delay(RbLines[i]).v

\* slow is twice standard, as numbers
IsDouble(slow, standard) ==
    MulAdd(standard, 2, 0).carry = 0 /\ MulAdd(standard, 2, 0).v = slow

\* C15: for every robots.txt input parse_crawl_delay returns a config whose
\* standard_delay_ms is 1000 x the Crawl-delay seconds of a matching agent
\* block, or 1000 when no matching block has a Crawl-delay or robots.txt is
\* empty or missing (lines of non-matching blocks never count), and whose
\* slow_path_delay_ms is 2 x standard_delay_ms in every case.
C15_CrawlDelayOfMatchingBlock ==
    rb_out # RbNone =>
        /\ rb_out.kind = "config"
        /\ IF MatchingDelayLines = {}
           THEN rb_out.standard_delay_ms = U64(1000)
           ELSE \E i \in MatchingDelayLines : rb_out.standard_delay_ms = DeclaredMs(i)
        /\ IsDouble(rb_out.slow_path_delay_ms, rb_out.standard_delay_ms)


IsSpecific(i) == InMatchingBlock(i) /\ ~IsWildcard(RbLines[BlockOf(i)])
\* the matching Crawl-delay lines all lie in blocks of one specificity
EqualSpecificity ==
    \A i \in MatchingDelayLines : \A j \in MatchingDelayLines :
        IsSpecific(i) = IsSpecific(j)
FirstMatchingDelayLine ==
    CHOOSE i \in MatchingDelayLines : \A j \in MatchingDelayLines : i <= j

\* C16: of several Crawl-delay lines in a matching block (and in later
\* matching blocks of equal specificity) the first one determines the
\* delay; the later ones are ignored.
C16_FirstCrawlDelayWins ==
    (rb_out.kind = "config" /\ MatchingDelayLines # {} /\ EqualSpecificity)
    => rb_out.standard_delay_ms = DeclaredMs(FirstMatchingDelayLine)

\* C17: when a wildcard block and a block naming the configured user-agent
\* both have a Crawl-delay, the delay of the specific block is used,
\* whichever block comes first in the file.
C17_SpecificBlockWins ==
    (/\ rb_out.kind = "config"
     /\ \E i \in MatchingDelayLines : IsSpecific(i)
     /\ \E i \in MatchingDelayLines : ~IsSpecific(i))
    => \E i \in MatchingDelayLines :
          IsSpecific(i) /\ rb_out.standard_delay_ms = DeclaredMs(i)

----------------------------------------------------------------------------
(* Properties of the per-domain limiter, checked under SpecBucket *)

\* the last two Ok acquires were fast-path calls in steady state: each had
\* to wait for its cell
SteadyFastPair ==
    /\ bk_acq.prev.ok /\ bk_acq.last.ok
    /\ ~bk_acq.prev.is_slow_path /\ ~bk_acq.last.is_slow_path
    /\ bk_acq.prev.waited /\ bk_acq.last.waited

\* C18: the bucket grants one token per delay interval: for every registered
\* standard_delay_ms, two fast-path acquires that both return Ok in steady
\* state are at least standard_delay_ms apart.
C18_OneTokenPerDelayInterval ==
    SteadyFastPair => bk_acq.last.at - bk_acq.prev.at >= bk_delay

----------------------------------------------------------------------------
(* Properties of the round-robin cursors, checked under SpecCursor *)

\* every call that returned for a non-empty pool got pool[k mod n]
RoundRobin ==
    \A c \in gp_returned :
        PoolOf(c.tier) # <<>>
        => c.proxy = PoolOf(c.tier)[(c.k % Len(PoolOf(c.tier))) + 1]
\* the cursor of a non-empty pool is an index into it
CursorInRange ==
    \A tier \in ProxyTiers :
        PoolOf(tier) # <<>> => CursorOf(tier) \in 0..(Len(PoolOf(tier)) - 1)
\* a step of a call for one tier leaves the other tier's cursor alone
OtherCursorKept ==
    /\ (gp_calls'[1] # gp_calls[1] \/ \E p \in GpTasks :
            gp_pc'[p] # gp_pc[p] /\ gp_call'[p].tier = 1) => t2_idx' = t2_idx
    /\ (gp_calls'[2] # gp_calls[2] \/ \E p \in GpTasks :
            gp_pc'[p] # gp_pc[p] /\ gp_call'[p].tier = 2) => t1_idx' = t1_idx

\* C19: for a tier with n >= 1 proxies the k-th get_next_proxy call (k = 0,
\* 1, 2, ..., under any interleaving of concurrent callers) returns
\* pool[k mod n], the cursor stays in [0, n), and a call for one tier never
\* changes the other tier's cursor.
C19_RoundRobinUnderInterleaving ==
    [](RoundRobin /\ CursorInRange) /\ [][OtherCursorKept]_vars

\* two calls of different tasks overlapped on the two tiers and the second
\* call on a two-proxy pool wrapped the cursor
C19_Witness ==
    /\ Len(tier1_proxies) = 2
    /\ \E c \in gp_returned : c.tier = 1 /\ c.k = 2 /\ c.proxy = tier1_proxies[1]
    /\ \E c \in gp_returned : c.tier = 2 /\ c.k = 1
    /\ \E p \in GpTasks : gp_pc[p] = "read" /\ gp_call[p].tier = 2
    /\ t1_idx = 1

----------------------------------------------------------------------------
(* Properties of SlowPathRenderer::render, checked under SpecRender *)

\* C20: every page render opened is closed before render returns, on every
\* return path (success, script-injection error, navigation error, Timeout
\* and content-extraction error): between render calls the browser has no
\* page open
C20_NoPageOpenBetweenRenders ==
    sp_pc = "idle" => sp_pages = {}

----------------------------------------------------------------------------
(* Properties of the fetch path as a whole, checked under SpecEngine *)

CircuitClosed(d) ==
    /\ ~unwrap_or(FromRedisBool(redis[config_key(d)]), FALSE)
    /\ unwrap_or(FromRedisU32(redis[failure_key(d)]), 0) <= FAILURE_THRESHOLD

Admissible(d) ==
    /\ ~RedisExists(RedisNow, blacklist_key(d))
    /\ CircuitClosed(d)
    /\ ~is_under_pressure

\* C21: a fast-path fetch attempt is made for a URL only in a state where
\* the blacklist key of its domain is absent, the circuit of its domain is
\* Closed (flag unset and counter <= 3) and the memory-pressure flag is
\* false
C21_FetchOnlyWhenAdmissible ==
    [][\A u \in EngineUrls : EngineFetch(u) => Admissible(UrlDomain(u))]_vars


\* C22: no rate-limit token is acquired while the pressure flag is true:
\* an acquire call returns Ok only in a state where the flag is false (the
\* fetch path reads the flag first and, when it is true, yields and retries
\* instead of acquiring)
C22_NoAcquireUnderPressure ==
    [][(\E d \in EngineDomains, slow \in BOOLEAN : EngineAcquire(d, slow))
           /\ rl_last'.ret = "Ok"
       => ~is_under_pressure]_vars


FailureCount(d) == unwrap_or(FromRedisU32(redis[failure_key(d)]), 0)

\* the fetch of the step met HardBan(403), SoftBan and a transport error
LadderExhausted(last) ==
    /\ Len(last.attempts) = 3
    /\ last.attempts[1].outcome = HardBan403
    /\ last.attempts[2].outcome = SoftBan
    /\ last.result = Reqwest

\* C23: one fetch in which Tier-0 returns HardBan(403), Tier-1 SoftBan and
\* Tier-2 a transport error increments the circuit failure counter of the
\* domain exactly once, from 0 to 1; a fetch that ends in Ok after SoftBan
\* or EmptyResponse results at Tier-0 or Tier-1 does not increment it
C23_CounterOncePerExhaustedFetch ==
    [][\A u \in EngineUrls :
          EngineFetch(u)
          => LET d == UrlDomain(u) IN
             /\ LadderExhausted(px_last') /\ FailureCount(d) = 0
                    => FailureCount(d)' = 1
             /\ px_last'.result = FetchOk
                    => FailureCount(d)' = FailureCount(d)]_vars

----------------------------------------------------------------------------
(* Further properties of the proxy ladder, checked under SpecProxy *)

\* C24: when Tier-0 and Tier-1 both fail with escalation-worthy errors, the
\* value fetch_with_escalation returns is the result of the Tier-2 attempt
\* (its body on success, its error on failure), never an error of the
\* earlier tiers
C24_Tier2ResultSurfaced ==
    LET a == px_last.attempts IN
    ( /\ Len(a) >= 2
      /\ a[1].tier = Tier0Direct /\ EscalationWorthy(a[1].outcome)
      /\ a[2].tier = Tier1Datacenter /\ EscalationWorthy(a[2].outcome) )
    => /\ Len(a) = 3
       /\ a[3].tier = Tier2Residential
       /\ px_last.result = a[3].outcome

C24_Witness ==
    /\ Len(px_last.attempts) = 3
    /\ px_last.attempts[1].outcome = HardBan403
    /\ px_last.attempts[2].outcome = SoftBan
    /\ px_last.attempts[3].tier = Tier2Residential
    /\ px_last.result = Reqwest

----------------------------------------------------------------------------
(* The circuit breaker built without Redis, checked under SpecCB *)

\* C25: with no Redis configured, whatever record_failure, handle_failure,
\* handoff_to_queue, reset and check calls were made on whatever domains,
\* check returns (Closed, failure_count 0, requires_full_browser false),
\* record_failure returns 0, handle_failure returns false and
\* should_bypass_local returns false
C25_NoRedisAlwaysClosed ==
    ~cb_redis
    => /\ cb_last.op = "check"
              => cb_last.ret = CircuitCheckResult(Closed, 0, FALSE)
       /\ cb_last.op = "record_failure" => cb_last.ret.count = 0
       /\ cb_last.op = "handle_failure" => cb_last.ret.handoff = FALSE
       /\ cb_last.op = "should_bypass_local" => cb_last.ret.bypass = FALSE

C25_Witness ==
    /\ ~cb_redis
    /\ cb_last.op = "handle_failure"
    /\ hf_streak[cb_last.domain] > FAILURE_THRESHOLD
    /\ cb_last.ret.handoff = FALSE

----------------------------------------------------------------------------
(* Properties of queue:slow_render_tasks, checked under SpecQueue *)

DeliveredUrls == [i \in 1..Len(hq_delivered) |-> hq_delivered[i].url]
CompletedAt(u) == CHOOSE i \in 1..Len(hq_completed) : hq_completed[i] = u
HasCompleted(u) == \E i \in 1..Len(hq_completed) : hq_completed[i] = u
Copies(seq, u) == Cardinality({i \in 1..Len(seq) : seq[i] = u})

DeliveredInCompletionOrder ==
    \A i, j \in 1..Len(hq_delivered) :
        ( /\ i < j
          /\ HasCompleted(DeliveredUrls[i])
          /\ HasCompleted(DeliveredUrls[j]) )
        => CompletedAt(DeliveredUrls[i]) < CompletedAt(DeliveredUrls[j])

HandedOffExactlyOnce ==
    \A i \in 1..Len(hq_completed) :
        Copies(DeliveredUrls, hq_completed[i])
            + Copies(QueueOf(redis), hq_completed[i]) = 1

PushOnlyAppends ==
    \A p \in HqTasks, u \in HqUrls :
        HqPush(p, u)
        => /\ redis' = [redis EXCEPT ![queue_key] = RList(Append(QueueOf(redis), u))]
           /\ redis_ttl' = redis_ttl

\* C26: queue:slow_render_tasks is FIFO: URLs are delivered to consumers
\* (BLPOP) in the order in which their handoff_to_queue calls completed,
\* each handed-off URL is delivered to exactly one consumer (or still
\* queued), and handoff_to_queue changes nothing but the tail of the queue
C26_FifoByCompletionOrder ==
    /\ [](DeliveredInCompletionOrder /\ HandedOffExactlyOnce)
    /\ [][PushOnlyAppends]_vars

DeliveredInServerOrder == DeliveredUrls \o QueueOf(redis) = hq_applied

SequentialCallsInOrder ==
    \A j \in 1..Len(hq_delivered) :
        \A u \in hq_before[DeliveredUrls[j]] :
            \E i \in 1..(j - 1) : DeliveredUrls[i] = u

\* C26 as amended: on a breaker with Redis, URLs are delivered in the order
\* in which the server applied their RPUSH, which puts a URL whose call
\* returned before another call started ahead of that call's URL; each
\* handed-off URL is delivered to exactly one consumer, and handoff_to_queue
\* changes nothing but the tail of the queue
C26_FifoByServerOrder ==
    /\ [](cb_redis => /\ DeliveredInServerOrder
                      /\ SequentialCallsInOrder
                      /\ HandedOffExactlyOnce)
    /\ [][cb_redis => PushOnlyAppends]_vars

C26_Witness ==
    /\ cb_redis
    /\ Len(hq_delivered) = 3
    /\ hq_delivered[1].consumer # hq_delivered[2].consumer
    /\ hq_before[DeliveredUrls[3]] # {}
    /\ HasCompleted(DeliveredUrls[1]) /\ HasCompleted(DeliveredUrls[2])
    /\ CompletedAt(DeliveredUrls[2]) < CompletedAt(DeliveredUrls[1])

----------------------------------------------------------------------------
(* Properties of DensityMetrics::compute, checked under SpecDensity *)

NoWords(doc) == SumOver(doc.nodes, 1, "words") = 0

RoutedByThreshold ==
    /\ dn_out.routing = Fast <=> F64Cmp(dn_out.final_score, SLOW_PATH_THRESHOLD) >= 0
    /\ dn_out.routing = Slow <=> F64Cmp(dn_out.final_score, SLOW_PATH_THRESHOLD) < 0

\* C27: for every HTML input, compute yields a final score in [0, 0.9] and
\* routing = Fast if and only if the score is >= 0.48 (Slow otherwise); a
\* document whose body contains no words routes Slow, with or without an
\* <article>/<main> element
C27_ScoreRangeAndRouting ==
    dn_out # DnNone
    => /\ F64Cmp(dn_out.final_score, F64Zero) >= 0
       /\ F64Cmp(dn_out.final_score, F64Lit(9, 10)) <= 0
       /\ RoutedByThreshold
       /\ NoWords(dn_doc) => dn_out.routing = Slow

\* 0.4 * 1.0 + 0.2 * 1.0 + 0.2 * 1.5 as f64 arithmetic evaluates it
MaxScore ==
    F64Add(F64Add(F64Mul(TEXT_DENSITY_WEIGHT, F64One),
                  F64Mul(LINK_DENSITY_WEIGHT, F64One)),
           F64Mul(TAG_SCORE_WEIGHT, HIGH_VALUE_TAG_SCORE))

\* C27 as amended: the final score is between 0 and the f64 value of
\* 0.4 + 0.2 + 0.2 * 1.5, which is 0.9000000000000001 and is reached;
\* routing = Fast if and only if the score is >= 0.48; a document whose
\* body contains no words routes Slow
C27_ScoreRangeInF64 ==
    dn_out # DnNone
    => /\ F64Cmp(dn_out.final_score, F64Zero) >= 0
       /\ F64Cmp(dn_out.final_score, MaxScore) <= 0
       /\ RoutedByThreshold
       /\ NoWords(dn_doc) => dn_out.routing = Slow

C27_Witness ==
    /\ dn_out # DnNone
    /\ dn_doc.article
    /\ dn_out.text_density = F64One
    /\ dn_out.link_density = F64One
    /\ dn_out.final_score = MaxScore
    /\ F64Cmp(dn_out.final_score, F64Lit(9, 10)) > 0
    /\ dn_out.routing = Fast

----------------------------------------------------------------------------
(* Properties of the head fingerprint, checked under SpecFingerprint *)

\* the values of the four fields of a document, empty for a field the
\* document lacks
FieldValues(doc) ==
    << unwrap_or_empty(doc.head.title), unwrap_or_empty(doc.head.description),
       unwrap_or_empty(doc.head.og_updated_time),
       unwrap_or_empty(doc.head.last_modified) >>

SameFields == FieldValues(fp_new) = FieldValues(fp_cached)

OnlyTitleDiffers ==
    /\ FieldValues(fp_new)[1] # FieldValues(fp_cached)[1]
    /\ \A i \in 2..4 : FieldValues(fp_new)[i] = FieldValues(fp_cached)[i]

\* C28: the fingerprint depends on the four trimmed head fields only: a
\* page whose title, description, og:updated_time and last-modified values
\* are those of the cached page gets the cached fingerprint, whatever
\* else differs (body text, white space around the values, the spelling of
\* the tags); a page that differs from the cached one in the title only
\* gets another fingerprint; has_content_changed(new, old) is true exactly
\* when the two fingerprints differ
C28_FingerprintOfHeadFields ==
    fp_out # FpNone =>
        /\ SameFields => fp_out.new_fingerprint = fp_stored
        /\ OnlyTitleDiffers => fp_out.new_fingerprint # fp_stored
        /\ fp_out.changed = (fp_out.new_fingerprint # fp_stored)
        /\ fp_out.changed \in BOOLEAN

\* a page with all four fields, rewritten in every other respect, found
\* unchanged
C28_Witness ==
    /\ fp_out # FpNone
    /\ SameFields
    /\ \A i \in 1..4 : FieldValues(fp_new)[i] # <<>>
    /\ fp_new.dress > 0 /\ fp_cached.dress = 0
    /\ fp_out.changed = FALSE


\* the four values of a HeadMetadata, empty for a missing field
MetadataValues(metadata) ==
    << unwrap_or_empty(metadata.title), unwrap_or_empty(metadata.description),
       unwrap_or_empty(metadata.og_updated_time),
       unwrap_or_empty(metadata.last_modified) >>

DistinctCanonicalStrings(new, cached) ==
    MetadataValues(new) # MetadataValues(cached) =>
        to_canonical_string(new) # to_canonical_string(cached)

\* C29: two pages whose (title, description, og:updated_time,
\* last-modified) values differ in some field never have the same canonical
\* string t:{title};d:{desc};ou:{og};lm:{lm}, also when values contain ';'
\* or ':', and so never the same fingerprint
C29_CanonicalStringInjective ==
    fp_out # FpNone =>
        /\ DistinctCanonicalStrings(extract(RenderHtml(fp_new)),
                                    extract(RenderHtml(fp_cached)))
        /\ FieldValues(fp_new) # FieldValues(fp_cached)
               => fp_out.new_fingerprint # fp_stored

----------------------------------------------------------------------------
(* Properties of the cookie stores, checked under SpecJar *)

\* C30: every attempt has a cookie store of its own: a request of a Tier-k
\* attempt carries no cookie that a response of another tier's attempt set,
\* nor one set during an earlier fetch_with_escalation call
C30_CookiesStayInTheirAttempt ==
    \A c \in jar_sent.cookies : c.call = jar_sent.call /\ c.tier = jar_sent.tier

\* cookies were stored in the Tier-0 attempts of two calls, and the Tier-1
\* attempt of the later call sends a cookie of its own after them
C30_Witness ==
    /\ [call |-> 1, tier |-> Tier0Direct] \in jar_stored
    /\ [call |-> 2, tier |-> Tier0Direct] \in jar_stored
    /\ jar_sent.call = 2 /\ jar_sent.tier = Tier1Datacenter
    /\ jar_sent.cookies # {}


----------------------------------------------------------------------------
(* Properties of concurrent acquire calls, checked under SpecAcquire *)

Steps(call) == [i \in 1..Len(call.log) |-> call.log[i].step]

\* the steps of a call that has returned, for its result and its path
StepsInOrder(call) ==
    /\ call.ret = "DomainBlacklisted" =>
           /\ Steps(call) = <<"blacklist">>
           /\ call.log[1].listed
    /\ call.ret = "Ok" /\ ~call.is_slow_path =>
           /\ Steps(call) = <<"blacklist", "token">>
           /\ ~call.log[1].listed
    /\ call.ret = "Ok" /\ call.is_slow_path =>
           LET cfg == CrawlDelayConfig(call.limiter.standard_delay_ms) IN
           /\ ~call.log[1].listed
           /\ IF cfg.slow_path_delay_ms - cfg.standard_delay_ms > 0
              THEN /\ Steps(call) = <<"blacklist", "token", "sleep">>
                   /\ call.log[3].ms = cfg.slow_path_delay_ms - cfg.standard_delay_ms
              ELSE Steps(call) = <<"blacklist", "token">>

\* C31: acquire checks the blacklist, then waits for its token, then sleeps
\* on the slow path: a refused call has taken no token, a fast-path call
\* never sleeps, and a slow-path call sleeps slow_path_delay_ms -
\* standard_delay_ms after its token
C31_AcquireStepOrder ==
    \A p \in AqTasks :
        /\ aq_call[p].ret # "-" => StepsInOrder(aq_call[p])
        /\ aq_call[p].ret = "-" =>
               \A i \in 1..Len(aq_call[p].log) :
                   aq_call[p].log[i].step = <<"blacklist", "token", "sleep">>[i]

\* one task refused, the other back from a slow-path call that slept
C31_Witness ==
    /\ aq_call["a1"].ret = "DomainBlacklisted"
    /\ aq_call["a2"].ret = "Ok" /\ aq_call["a2"].is_slow_path
    /\ Len(aq_call["a2"].log) = 3 /\ aq_call["a2"].log[3].ms = 500


----------------------------------------------------------------------------
(* reset and the calls that follow it, checked under SpecCB *)

ResetOf(call, d) == call.op = "reset" /\ call.domain = d

\* what a step that is or follows reset(d) does, the call after reset(d)
\* being a handle_failure that leaves the counter at `count`
AfterReset(d, count) ==
    /\ ResetOf(cb_last', d) =>
           \A k \in RedisKeys \ {failure_key(d), config_key(d)} :
               redis'[k] = redis[k] /\ redis_ttl'[k] = redis_ttl[k]
    /\ ResetOf(cb_last, d) /\ cb_last'.op = "check" /\ cb_last'.domain = d =>
           cb_last'.ret = CircuitCheckResult(Closed, 0, FALSE)
    /\ ResetOf(cb_last, d) /\ cb_last'.op = "handle_failure" /\ cb_last'.domain = d =>
           /\ cb_last'.ret.handoff = FALSE
           /\ unwrap_or(FromRedisU32(redis'[failure_key(d)]), 0) = count

\* C32: after reset(domain), check(domain) returns (Closed, 0, false) and
\* the next handle_failure(domain, url) returns false with the counter at
\* 1; reset leaves the keys of other domains and the queue as they were
C32_ResetRestoresClosed == [][\A d \in Domains : AfterReset(d, 1)]_vars

\* C32 as amended: the counter is at 1 after that handle_failure when the
\* breaker has a Redis connection, and nothing is stored (0) when it has none
C32_ResetRestoresClosedWithRedis ==
    [][\A d \in Domains : AfterReset(d, IF cb_redis THEN 1 ELSE 0)]_vars

\* d.com was handed off and reset, and its next handle_failure counted 1
\* and handed nothing off, while e.org keeps its flag
C32_Witness ==
    /\ cb_redis
    /\ cb_last = CBCall("handle_failure", "d.com", "https://d.com/x", [handoff |-> FALSE])
    /\ StoredCount("d.com") = 1 /\ ~StoredFlag("d.com")
    /\ QueueOf(redis) = <<"https://d.com/x">>
    /\ StoredFlag("e.org")


\* the tasks whose call holds a limiter and has its token still to take
Waiting == {p \in AqTasks : aq_pc[p] = "wait"}

\* C33: a domain has one token bucket, shared by all callers: the calls
\* waiting for a token all hold the limiter that the map holds for the
\* domain (the one every later call will get), whatever the interleaving
\* of acquire, get_limiter and register_domain calls
C33_OneBucketPerDomain ==
    \A p \in Waiting :
        /\ aq_call[p].limiter.id = aq_map.id
        /\ \A q \in Waiting : aq_call[q].limiter.id = aq_call[p].limiter.id


BlacklistKeyExists(kv) == kv[blacklist_key(SharedDomain)] # RNil

\* the call of p returns Ok in this step
ReturnsOk(p) == aq_pc[p] # "idle" /\ aq_pc'[p] = "idle" /\ aq_call'[p].ret = "Ok"

\* the call of p starts in this step
Starts(p) == aq_pc[p] = "idle" /\ aq_call'[p] # aq_call[p]

\* C34: an acquire call returns Ok only if the blacklist key of the domain
\* is absent when the call returns: a call that was waiting for its token
\* or sleeping when record_tier2_failure wrote the key does not return Ok
C34_NoOkOnceBlacklisted ==
    [][\A p \in AqTasks : ReturnsOk(p) => ~BlacklistKeyExists(redis')]_vars

\* C34 as amended: a call returns Ok only if the key was absent when the
\* call read it, in its first step; a call that starts while the key
\* exists is refused
C34_RefusedIfBlacklistedAtStart ==
    [][\A p \in AqTasks :
          /\ Starts(p) =>
                /\ aq_call'[p].log[1].listed = (rl_redis /\ BlacklistKeyExists(redis))
                /\ rl_redis /\ BlacklistKeyExists(redis) =>
                       aq_pc'[p] = "idle" /\ aq_call'[p].ret = "DomainBlacklisted"
          /\ ReturnsOk(p) => ~aq_call'[p].log[1].listed]_vars

\* the key was written while the call of a1 was on its way: a1 is in its
\* slow-path sleep, about to return Ok, and the call of a2 has been refused
C34_Witness ==
    /\ BlacklistKeyExists(redis)
    /\ aq_pc["a1"] = "sleep" /\ ~aq_call["a1"].log[1].listed
    /\ aq_call["a2"].ret = "DomainBlacklisted"


----------------------------------------------------------------------------
(* Properties of calls over a failing connection, checked under SpecFault *)

\* C35: whenever failures:H:count exists it has a TTL of at most 3600 s,
\* also after a record_failure that was cancelled or whose EXPIRE failed
\* once the INCR had succeeded, and after the first increment that follows
\* an expiry; stated of the states in which no call is running
C35_CounterAlwaysExpires ==
    ft_pc = "idle" =>
        \A d \in Domains :
            redis[failure_key(d)] # RNil =>
                /\ redis_ttl[failure_key(d)] # NoExpiry
                /\ redis_ttl[failure_key(d)] <= FAILURE_TTL_SECS


----------------------------------------------------------------------------
(* The open circuit and handle_failure, checked under SpecCB *)

\* C36: whenever check(domain) reports Open, a handle_failure(domain, url)
\* call hands the URL off (returns true and enqueues it), also when the
\* sticky flag is set and the counter has expired and restarts at 1
C36_OpenCircuitHandsOff ==
    [][\A d \in Domains :
          /\ check(RedisNow, d).state = Open
          /\ cb_last'.op = "handle_failure" /\ cb_last'.domain = d
          /\ redis' # redis
          => /\ cb_last'.ret.handoff
             /\ QueueOf(redis') = Append(QueueOf(redis), cb_last'.url)]_vars


----------------------------------------------------------------------------
(* Hand-offs over a failing connection, checked under SpecFault *)

Occurrences(q, u) == Cardinality({i \in 1..Len(q) : q[i] = u})

\* C37: no over-threshold URL is lost: once no call is running, the queue
\* holds the URL of every handle_failure call whose increment raised the
\* counter above 3, once per such call, also when calls returned a Redis
\* error part-way; and a handle_failure call that returned Err has left
\* the counter and the sticky flag as they were
C37_NoOverThresholdUrlLost ==
    ft_pc = "idle" =>
        /\ \A u \in Urls : Occurrences(QueueOf(redis), u) >= ft_over[u]
        /\ ft_call.op = "handle_failure" /\ ft_call.ret = FtErr =>
               FtStored(ft_call.domain) = ft_call.before


ReadsFailed(call) == \A i \in 1..Len(call.reads) : ~call.reads[i]

\* C38: check never returns Err for a failed Redis read: a flag or counter
\* GET that fails reads as false / 0, so a check whose reads all fail
\* reports (Closed, 0, false) for every domain, whereas is_blacklisted
\* returns the error of its failed EXISTS to its caller
C38_CheckSwallowsReadErrors ==
    ft_pc = "idle" =>
        /\ ft_call.op = "check" =>
               /\ ft_call.ret # FtErr
               /\ ReadsFailed(ft_call) =>
                      ft_call.ret = CircuitCheckResult(Closed, 0, FALSE)
        /\ ft_call.op = "is_blacklisted" =>
               (ft_call.ret = FtErr) = ReadsFailed(ft_call)

\* a check of a domain whose circuit is open (flag set, counter above the
\* threshold), both GETs of which failed
C38_Witness ==
    /\ ft_pc = "idle"
    /\ ft_call.op = "check" /\ ft_call.reads = <<FALSE, FALSE>>
    /\ ft_call.before = [count |-> FAILURE_THRESHOLD + 1, flag |-> TRUE]
    /\ ft_call.ret.state = Closed


----------------------------------------------------------------------------
(* Empty proxy pools, checked under SpecProxy *)

\* the attempts of tier `tier` among attempts a
AttemptsOf(a, tier) == {i \in 1..Len(a) : a[i].tier = tier}

\* C39: when the pool of a tier is empty the attempt of that tier is still
\* made, with no proxy (a direct connection), and the tier's cursor stays
\* where it was; with both pools empty an escalation sends up to three
\* direct requests
C39_EmptyPoolGoesDirect ==
    [][LET a == px_last'.attempts IN
       /\ tier1_proxies = <<>> =>
              /\ t1_idx' = t1_idx
              /\ \A i \in AttemptsOf(a, Tier1Datacenter) : a[i].proxy = NoProxy
              /\ Len(a) >= 1 /\ EscalationWorthy(a[1].outcome) =>
                     AttemptsOf(a, Tier1Datacenter) = {2}
       /\ tier2_proxies = <<>> =>
              /\ t2_idx' = t2_idx
              /\ \A i \in AttemptsOf(a, Tier2Residential) : a[i].proxy = NoProxy
              /\ Len(a) >= 2 /\ EscalationWorthy(a[1].outcome) /\ EscalationWorthy(a[2].outcome) =>
                     AttemptsOf(a, Tier2Residential) = {3}]_vars

\* an escalation through the three tiers with both pools empty: three
\* direct requests
C39_Witness ==
    /\ tier1_proxies = <<>> /\ tier2_proxies = <<>>
    /\ Len(px_last.attempts) = 3
    /\ \A i \in 1..3 : px_last.attempts[i].proxy = NoProxy
    /\ t1_idx = 0 /\ t2_idx = 0


----------------------------------------------------------------------------
(* Properties of the enrichment worker, checked under SpecWorker *)

\* C40: a record whose enrichment fails is retried at most max_retries
\* times: over any number of polls the worker makes at most 1 + max_retries
\* enrichment attempts per record, and the errors counted stay within that
\* bound for every record
C40_RetriesBounded ==
    /\ \A i \in 1..Len(wk_records) :
           wk_attempts[i] <= 1 + WorkerConfigDefault.max_retries
    /\ wk_stats.errors <= Len(wk_records) * (1 + WorkerConfigDefault.max_retries)

====
